---- MODULE Spec2Model ----
(***************************************************************************)
(* Offer-analysis: the scatter-plot drag controller (ScatterPlot.tsx) and  *)
(* its owner (App.tsx): throttled live updates, the committed update at    *)
(* drag-end, the domain auto-expansion interval and the domain recompute   *)
(* effect.  Numbers (JavaScript doubles in the source) are modelled as     *)
(* exact rationals <<numerator, denominator>> with denominator > 0.        *)
(* Time is counted in units of TimeUnitMs milliseconds.                    *)
(***************************************************************************)
EXTENDS Integers, Sequences, FiniteSets, TLC

(***************************************************************************)
(* Bounds of the model                                                     *)
(***************************************************************************)
\* number of drag gestures explored
MaxDrags == 1
\* number of expansion ticks that change the domain explored
MaxExpand == 1
\* number of direct calls of checkAndExpandDomain explored
MaxCalls == 2

(***************************************************************************)
(* Program constants                                                       *)
(***************************************************************************)
\* App.tsx:19
PIXEL_INCREMENT == 1
\* App.tsx:26  (EDGE_THRESHOLD = 0.01 = 1 / EdgeThresholdInv)
EdgeThresholdInv == 100
\* ScatterPlot.tsx:175  (100 ms throttle, in time units of 20 ms)
ThrottleDelay == 5
\* App.tsx:220  (60 ms interval, in time units of 20 ms)
IntervalPeriod == 3
\* ScatterPlot.tsx:307  (margins of the plot inside the svg)
MarginTop == 20
MarginRight == 20
MarginBottom == 60
MarginLeft == 60
\* plot width / height in pixels (svg client size minus the margins)
PlotWidth == 10
PlotHeight == 8

(***************************************************************************)
(* Rational arithmetic                                                     *)
(***************************************************************************)
Abs(n) == IF n < 0 THEN -n ELSE n

RECURSIVE GCD(_, _)
GCD(a, b) == IF b = 0 THEN a ELSE GCD(b, a % b)

Norm(n, d) == IF d = 1 THEN <<n, 1>>
              ELSE LET g == GCD(Abs(n), d) IN <<n \div g, d \div g>>

R(n) == <<n, 1>>
\* the operations cancel common factors before they multiply, which keeps
\* the intermediate integers small
RAdd(a, b) == IF a[2] = b[2] THEN Norm(a[1] + b[1], a[2])
              ELSE
              LET g == GCD(a[2], b[2])
              IN Norm(a[1] * (b[2] \div g) + b[1] * (a[2] \div g), (a[2] \div g) * b[2])
RSub(a, b) == IF a[2] = b[2] THEN Norm(a[1] - b[1], a[2])
              ELSE
              LET g == GCD(a[2], b[2])
              IN Norm(a[1] * (b[2] \div g) - b[1] * (a[2] \div g), (a[2] \div g) * b[2])
RMul(a, b) == LET g == GCD(Abs(a[1]), b[2])
                  h == GCD(Abs(b[1]), a[2])
              IN Norm((a[1] \div g) * (b[1] \div h), (a[2] \div h) * (b[2] \div g))
\* b # 0
RDiv(a, b) == IF b[1] > 0 THEN RMul(a, <<b[2], b[1]>>)
              ELSE RMul(a, <<-b[2], -b[1]>>)
RLt(a, b) == IF a[2] = b[2] THEN a[1] < b[1]
             ELSE
             LET g == GCD(a[2], b[2])
             IN a[1] * (b[2] \div g) < b[1] * (a[2] \div g)
RLe(a, b) == IF a[2] = b[2] THEN a[1] <= b[1]
             ELSE
             LET g == GCD(a[2], b[2])
             IN a[1] * (b[2] \div g) <= b[1] * (a[2] \div g)
RMax(a, b) == IF RLe(a, b) THEN b ELSE a
RMin(a, b) == IF RLe(a, b) THEN a ELSE b
RAbs(a) == <<Abs(a[1]), a[2]>>

RECURSIVE RMinOf(_)
RMinOf(S) == LET v == CHOOSE x \in S : TRUE
             IN IF S = {v} THEN v ELSE RMin(v, RMinOf(S \ {v}))
RECURSIVE RMaxOf(_)
RMaxOf(S) == LET v == CHOOSE x \in S : TRUE
             IN IF S = {v} THEN v ELSE RMax(v, RMaxOf(S \ {v}))

\* a JavaScript reference that is null or undefined, or holds a value
Null == <<>>
Some(v) == <<v>>
Val(r) == r[1]

\* the number NaN, written as the quotient 0/0; no arithmetic is done on it
NaN == <<0, 0>>
\* zero whatever the number is
orZeroAlways(v) == R(0)

\* v ?? 0 for a number v that may be undefined
orZero(v) == IF v = Null THEN R(0) ELSE v

(***************************************************************************)
(* The coordinate mapper: d3.scaleLinear().domain([min,max]).range(...)    *)
(***************************************************************************)
\* x scale, range [0, width]; a degenerate domain maps to the middle
xScale(dom, width, v) ==
    IF dom.x[1] = dom.x[2] THEN RDiv(width, R(2))
    ELSE RMul(RDiv(RSub(v, dom.x[1]), RSub(dom.x[2], dom.x[1])), width)
\* y scale, range [height, 0]: a larger rate is plotted higher up
yScale(dom, height, v) ==
    IF dom.y[1] = dom.y[2] THEN RDiv(height, R(2))
    ELSE RSub(height, RMul(RDiv(RSub(v, dom.y[1]), RSub(dom.y[2], dom.y[1])), height))
\* the inverse that measures the pixel from the right end of the range
xInvertFromRight(dom, width, px) ==
    RAdd(dom.x[1], RMul(RDiv(RSub(width, px), width), RSub(dom.x[2], dom.x[1])))

\* scale.invert (ScatterPlot.tsx:213-214): pixel to data value
xInvert(dom, width, px) ==
    RAdd(dom.x[1], RMul(RDiv(px, width), RSub(dom.x[2], dom.x[1])))
yInvert(dom, height, py) ==
    RAdd(dom.y[1], RMul(RDiv(RSub(height, py), height), RSub(dom.y[2], dom.y[1])))

(***************************************************************************)
(* App.tsx: the owner of the domain and of the user offer                  *)
(***************************************************************************)
\* the range taken as it is, however small
minRangeNone(range, least) == range

\* the minimum range of getInitialDomain (App.tsx:66-67): Math.max(range, least)
minRange(range, least) == RMax(range, least)

\* getInitialDomain with the lower bounds not floored at zero
getInitialDomainNoFloor(offers, userOffer) ==
    IF offers = {} /\ userOffer = Null
    THEN [x |-> <<R(0), R(1)>>, y |-> <<R(0), R(5)>>]
    ELSE
    LET allLoanAmounts == {o.loanAmount : o \in offers}
            \cup {IF userOffer = Null THEN R(0) ELSE orZero(Val(userOffer).loanAmount)}
        allInterestRates == {o.interestRate : o \in offers}
            \cup {IF userOffer = Null THEN R(0) ELSE orZero(Val(userOffer).interestRate)}
        minLoan == RMinOf(allLoanAmounts)
        maxLoan == RMaxOf(allLoanAmounts)
        minRate == RMinOf(allInterestRates)
        maxRate == RMaxOf(allInterestRates)
        loanRange == RSub(maxLoan, minLoan)
        yMin == IF minRate = maxRate THEN RSub(minRate, R(1)) ELSE minRate
        yMax == IF minRate = maxRate THEN RAdd(maxRate, R(1)) ELSE maxRate
        rateRange == RSub(yMax, yMin)
        minLoanRange == minRange(loanRange, <<1, 10>>)
        minRateRange == minRange(rateRange, R(2))
        tenth == <<1, 10>>
    IN [x |-> <<RSub(minLoan, RMul(minLoanRange, tenth)),
                RAdd(maxLoan, RMul(minLoanRange, tenth))>>,
        y |-> <<RSub(yMin, RMul(minRateRange, tenth)),
                RAdd(yMax, RMul(minRateRange, tenth))>>]

\* getInitialDomain(offers, userOffer); userOffer is Null or Some(offer)
getInitialDomain(offers, userOffer) ==
    IF offers = {} /\ userOffer = Null
    THEN [x |-> <<R(0), R(1)>>, y |-> <<R(0), R(5)>>]
    ELSE
    LET allLoanAmounts == {o.loanAmount : o \in offers}
            \cup {IF userOffer = Null THEN R(0) ELSE orZero(Val(userOffer).loanAmount)}
        allInterestRates == {o.interestRate : o \in offers}
            \cup {IF userOffer = Null THEN R(0) ELSE orZero(Val(userOffer).interestRate)}
        minLoan == RMinOf(allLoanAmounts)
        maxLoan == RMaxOf(allLoanAmounts)
        minRate == RMinOf(allInterestRates)
        maxRate == RMaxOf(allInterestRates)
        loanRange == RSub(maxLoan, minLoan)
        yMin == IF minRate = maxRate THEN RSub(minRate, R(1)) ELSE minRate
        yMax == IF minRate = maxRate THEN RAdd(maxRate, R(1)) ELSE maxRate
        rateRange == RSub(yMax, yMin)
        minLoanRange == minRange(loanRange, <<1, 10>>)
        minRateRange == minRange(rateRange, R(2))
        tenth == <<1, 10>>
    IN [x |-> <<RMax(R(0), RSub(minLoan, RMul(minLoanRange, tenth))),
                RAdd(maxLoan, RMul(minLoanRange, tenth))>>,
        y |-> <<RMax(R(0), RSub(yMin, RMul(minRateRange, tenth))),
                RAdd(yMax, RMul(minRateRange, tenth))>>]

\* the test that takes every difference as significant
isSignificantChangeAny(newDomain, dom) == newDomain # dom

\* the test of the domain recompute effect (App.tsx:93-97)
isSignificantChange(newDomain, dom) ==
    \/ RLt(RMul(dom.x[2], <<1, 10>>), RAbs(RSub(newDomain.x[1], dom.x[1])))
    \/ RLt(RMul(dom.x[2], <<1, 10>>), RAbs(RSub(newDomain.x[2], dom.x[2])))
    \/ RLt(RMul(dom.y[2], <<1, 10>>), RAbs(RSub(newDomain.y[1], dom.y[1])))
    \/ RLt(RMul(dom.y[2], <<1, 10>>), RAbs(RSub(newDomain.y[2], dom.y[2])))

\* the domain recompute effect, run after a render in which the offers or
\* the user offer changed: the domain it leaves behind
domainEffect(offers, userOffer, dom) ==
    LET newDomain == getInitialDomain(offers, Some(userOffer))
    IN IF isSignificantChange(newDomain, dom) THEN newDomain ELSE dom

\* the state updater with a triggered edge moving its bound inward by the
\* whole span instead of outward by the increment
expandUpdaterInward(prev, pos) ==
    LET xMin0 == prev.x[1]
        xMax0 == prev.x[2]
        yMin0 == prev.y[1]
        yMax0 == prev.y[2]
        xRange == RSub(xMax0, xMin0)
        yRange == RSub(yMax0, yMin0)
        near == <<1, EdgeThresholdInv>>
        far == RSub(R(1), near)
        right == RLe(RMul(pos.width, far), pos.x)
        left == RLe(pos.x, RMul(pos.width, near))
        top == RLe(pos.y, RMul(pos.height, near))
        bottom == RLe(RMul(pos.height, far), pos.y)
        changed == right \/ left \/ top \/ bottom
        xMax1 == IF right THEN RSub(xMax0, xRange) ELSE xMax0
        xMin1 == IF left THEN RAdd(xMin0, xRange) ELSE xMin0
        yMax1 == IF top THEN RSub(yMax0, yRange) ELSE yMax0
        yMin1 == IF bottom THEN RAdd(yMin0, yRange) ELSE yMin0
        minXRange == RMul(xRange, <<1, 10>>)
        minYRange == RMul(yRange, <<1, 10>>)
        xTight == RLt(RSub(xMax1, xMin1), minXRange)
        yTight == RLt(RSub(yMax1, yMin1), minYRange)
        xc == RDiv(RAdd(xMax1, xMin1), R(2))
        yc == RDiv(RAdd(yMax1, yMin1), R(2))
        xMin2 == IF xTight THEN RSub(xc, RDiv(minXRange, R(2))) ELSE xMin1
        xMax2 == IF xTight THEN RAdd(xc, RDiv(minXRange, R(2))) ELSE xMax1
        yMin2 == IF yTight THEN RSub(yc, RDiv(minYRange, R(2))) ELSE yMin1
        yMax2 == IF yTight THEN RAdd(yc, RDiv(minYRange, R(2))) ELSE yMax1
    IN IF changed THEN [x |-> <<xMin2, xMax2>>, y |-> <<yMin2, yMax2>>] ELSE prev

\* the state updater of checkAndExpandDomain (App.tsx:166-214) for the drag
\* position pos = [x, y, width, height]
expandUpdater(prev, pos) ==
    LET xMin0 == prev.x[1]
        xMax0 == prev.x[2]
        yMin0 == prev.y[1]
        yMax0 == prev.y[2]
        xRange == RSub(xMax0, xMin0)
        yRange == RSub(yMax0, yMin0)
        w == IF pos.width = R(0) THEN R(1) ELSE pos.width
        h == IF pos.height = R(0) THEN R(1) ELSE pos.height
        xIncrement == RMul(RDiv(xRange, w), R(PIXEL_INCREMENT))
        yIncrement == RMul(RDiv(yRange, h), R(PIXEL_INCREMENT))
        near == <<1, EdgeThresholdInv>>
        far == RSub(R(1), near)
        right == RLe(RMul(pos.width, far), pos.x)
        left == RLe(pos.x, RMul(pos.width, near))
        top == RLe(pos.y, RMul(pos.height, near))
        bottom == RLe(RMul(pos.height, far), pos.y)
        changed == right \/ left \/ top \/ bottom
        xMax1 == IF right THEN RAdd(xMax0, xIncrement) ELSE xMax0
        xMin1 == IF left THEN RMax(R(0), RSub(xMin0, xIncrement)) ELSE xMin0
        yMax1 == IF top THEN RAdd(yMax0, yIncrement) ELSE yMax0
        yMin1 == IF bottom THEN RMax(R(0), RSub(yMin0, yIncrement)) ELSE yMin0
        minXRange == RMul(xRange, <<1, 10>>)
        minYRange == RMul(yRange, <<1, 10>>)
        xTight == RLt(RSub(xMax1, xMin1), minXRange)
        yTight == RLt(RSub(yMax1, yMin1), minYRange)
        xc == RDiv(RAdd(xMax1, xMin1), R(2))
        yc == RDiv(RAdd(yMax1, yMin1), R(2))
        xMin2 == IF xTight THEN RSub(xc, RDiv(minXRange, R(2))) ELSE xMin1
        xMax2 == IF xTight THEN RAdd(xc, RDiv(minXRange, R(2))) ELSE xMax1
        yMin2 == IF yTight THEN RSub(yc, RDiv(minYRange, R(2))) ELSE yMin1
        yMax2 == IF yTight THEN RAdd(yc, RDiv(minYRange, R(2))) ELSE yMax1
    IN IF changed THEN [x |-> <<xMin2, xMax2>>, y |-> <<yMin2, yMax2>>] ELSE prev

\* startExpandInterval: the interval handle after the call (Null or the
\* time left until the next tick)
startExpandInterval(ref) == IF ref # Null THEN ref ELSE Some(IntervalPeriod)

\* stopExpandInterval: the interval handle after the call
stopExpandInterval(ref) == Null

\* updateUserOffer({loanAmount, interestRate}) as handleUserOfferDrag calls it
updateUserOffer(prev, loanAmount, interestRate) ==
    [prev EXCEPT !.loanAmount = RMax(R(0), loanAmount),
                 !.interestRate = RMax(R(0), interestRate)]

\* the branch test of handleUserOfferDrag (App.tsx:232): a live update
isLiveUpdate(update) ==
    update.dragging /\ update.dragX # Null /\ update.dragY # Null
    /\ update.width # Null /\ update.height # Null

(***************************************************************************)
(* ScatterPlot.tsx: the throttle                                           *)
(***************************************************************************)
\* throttledExpand with the timeout armed without a delay
throttledExpandNoDelay(ref, fn) ==
    IF ref # Null THEN ref ELSE Some([fn |-> fn, left |-> 0])

\* throttledExpand(fn): the timeout handle after the call; a pending timeout
\* keeps the closure it was armed with
throttledExpand(ref, fn) ==
    IF ref # Null THEN ref ELSE Some([fn |-> fn, left |-> ThrottleDelay])

\* the update object handleDrag hands to onUserOfferDrag (ScatterPlot.tsx:241-249)
liveUpdate(loanAmount, interestRate, ex, ey) ==
    [loanAmount |-> loanAmount, interestRate |-> interestRate,
     dragX |-> Some(ex), dragY |-> Some(ey),
     width |-> Some(R(PlotWidth)), height |-> Some(R(PlotHeight)),
     dragging |-> TRUE]

\* the update object the 'end' handler hands to onUserOfferDrag (ScatterPlot.tsx:275)
committedUpdate(loanAmount, interestRate) ==
    [loanAmount |-> loanAmount, interestRate |-> interestRate,
     dragX |-> Null, dragY |-> Null, width |-> Null, height |-> Null,
     dragging |-> FALSE]

\* handleDrag's clamp of a data value to the domain (ScatterPlot.tsx:217-218)
clampToDomain(range, v) == RMax(range[1], RMin(range[2], v))

\* the position the main chart effect gives the user point
\* (ScatterPlot.tsx:609-627); a scale applied to undefined gives NaN
drawUserPoint(dragging, lastDataPos, offer, dom) ==
    IF dragging /\ lastDataPos # Null
    THEN [cx |-> xScale(dom, R(PlotWidth), Val(lastDataPos).dataX),
          cy |-> yScale(dom, R(PlotHeight), Val(lastDataPos).dataY)]
    ELSE [cx |-> IF offer.loanAmount = Null THEN NaN
                 ELSE xScale(dom, R(PlotWidth), offer.loanAmount),
          cy |-> IF offer.interestRate = Null THEN NaN
                 ELSE yScale(dom, R(PlotHeight), offer.interestRate)]

\* handleUserOfferDrag(update) on the owner's state
\* app = [userOffer, dragActiveRef, dragPosRef, expandIntervalRef]
handleUserOfferDrag(app, update) ==
    IF isLiveUpdate(update)
    THEN [userOffer |-> updateUserOffer(app.userOffer, update.loanAmount, update.interestRate),
          dragActiveRef |-> TRUE,
          dragPosRef |-> Some([x |-> Val(update.dragX), y |-> Val(update.dragY),
                               width |-> Val(update.width), height |-> Val(update.height)]),
          expandIntervalRef |-> startExpandInterval(app.expandIntervalRef)]
    ELSE [userOffer |-> updateUserOffer(app.userOffer, update.loanAmount, update.interestRate),
          dragActiveRef |-> FALSE,
          dragPosRef |-> Null,
          expandIntervalRef |-> stopExpandInterval(app.expandIntervalRef)]

(***************************************************************************)
(* utils/median.ts                                                         *)
(***************************************************************************)
\* the values o[key] of the records of S in ascending order
RECURSIVE sortedValues(_, _)
sortedValues(S, key) ==
    IF S = {} THEN <<>>
    ELSE LET o == CHOOSE o \in S : \A q \in S : RLe(o[key], q[key])
         IN <<o[key]>> \o sortedValues(S \ {o}, key)

\* d3.median(offers, o => o[key]): Null (undefined) for no values, the
\* middle value, or the mean of the two middle values
d3median(offers, key) ==
    LET v == sortedValues(offers, key)
        n == Len(v)
    IN IF n = 0 THEN Null
       ELSE IF n % 2 = 1 THEN Some(v[(n + 1) \div 2])
       ELSE Some(RDiv(RAdd(v[n \div 2], v[n \div 2 + 1]), R(2)))

\* getMarketMedians (median.ts:4-8): undefined || 0 is 0
getMarketMedians(offers) ==
    LET loan == d3median(offers, "loanAmount")
        rate == d3median(offers, "interestRate")
    IN [medianLoanAmount |-> IF loan = Null THEN R(0) ELSE Val(loan),
        medianInterestRate |-> IF rate = Null THEN R(0) ELSE Val(rate)]

\* a call of getMarketMedians with its argument
callMedians(offers) == [offers |-> offers, result |-> getMarketMedians(offers)]

(***************************************************************************)
(* Inputs                                                                  *)
(***************************************************************************)
\* the market offers the owner passes to the chart
Offers ==
    {[id |-> "a", loanAmount |-> R(10), interestRate |-> R(5)],
     [id |-> "b", loanAmount |-> R(20), interestRate |-> R(10)],
     [id |-> "c", loanAmount |-> R(40), interestRate |-> R(20)]}

\* pointer positions (event.x, event.y) in plot coordinates: the middle, a
\* horizontal step from it, beyond the bottom-right corner
Pointers ==
    {<<PlotWidth \div 2, PlotHeight \div 2>>,
     <<PlotWidth \div 2 + 2, PlotHeight \div 2>>,
     <<PlotWidth + 2, PlotHeight + 1>>}

\* useUserOffer's initial state (useUserOffer.ts:12-16)
defaultUserOffer == [loanAmount |-> R(1), interestRate |-> R(5)]

\* the middle element sorted[floor(n / 2)] of a set of distinct numbers
middleOf(S) ==
    CHOOSE v \in S : Cardinality({u \in S : RLt(u, v)}) = Cardinality(S) \div 2

\* initializeWithMedianValues (useUserOffer.ts:34-66): the user offer it sets
initializeWithMedianValues(offers) ==
    [loanAmount |-> middleOf({o.loanAmount : o \in offers}),
     interestRate |-> middleOf({o.interestRate : o \in offers})]

\* the domain after the first renders: the state initialiser with no offers
\* loaded, the recompute when the offers arrive, and the recompute when the
\* user offer is set to the medians
loadedDomain ==
    LET d0 == getInitialDomain({}, Some(defaultUserOffer))
        d1 == domainEffect(Offers, defaultUserOffer, d0)
    IN domainEffect(Offers, initializeWithMedianValues(Offers), d1)

\* a tooltip node as the creation effect makes it: hidden, no position, no text
newTooltip == [visible |-> FALSE, at |-> Null, text |-> Null]

\* the tooltip creation effect (ScatterPlot.tsx:97-137), run once at mount:
\* each node is created and appended to the body if its ref is empty
tooltipEffect(tooltip, dragTooltip, body) ==
    [tooltipRef |-> IF tooltip = Null THEN Some(newTooltip) ELSE tooltip,
     dragTooltipRef |-> IF dragTooltip = Null THEN Some(newTooltip) ELSE dragTooltip,
     body |-> [tooltip |-> IF tooltip = Null THEN body.tooltip + 1 ELSE body.tooltip,
               dragTooltip |-> IF dragTooltip = Null THEN body.dragTooltip + 1
                               ELSE body.dragTooltip]]

\* the cleanup with the refs cleared and the nodes left in the body
tooltipCleanupKeepNodes(tooltip, dragTooltip, body) ==
    [tooltipRef |-> Null, dragTooltipRef |-> Null, body |-> body]

\* the cleanup of the tooltip effect (ScatterPlot.tsx:140-149), run at
\* unmount: each node is removed if the body contains it, the refs are cleared
tooltipCleanup(tooltip, dragTooltip, body) ==
    [tooltipRef |-> Null,
     dragTooltipRef |-> Null,
     body |-> [tooltip |-> IF tooltip # Null /\ body.tooltip > 0
                           THEN body.tooltip - 1 ELSE body.tooltip,
               dragTooltip |-> IF dragTooltip # Null /\ body.dragTooltip > 0
                               THEN body.dragTooltip - 1 ELSE body.dragTooltip]]

(***************************************************************************)
(* ScatterPlot.tsx: the render pass.  The svg is Null (no element) or a    *)
(* record of what is drawn in it:                                          *)
(*   g           the plot group exists                                     *)
(*   points      ids of the market marks                                   *)
(*   axes        Null, or the domain and plot size the axes show           *)
(*   medianLines Null, or the medians the reference lines show             *)
(*   crosshair   Null, or what the crosshairs and their badges show        *)
(*   contours    Null, or [opacity, fading] of the contour paths           *)
(* The inputs of a pass are a record in = [data, domain, chartSize,        *)
(* showContours, selectedCurrency].                                        *)
(***************************************************************************)
\* getChartGeometry (ScatterPlot.tsx:303-315): the plot size
plotWidth(size) == size.width - MarginLeft - MarginRight
plotHeight(size) == size.height - MarginTop - MarginBottom
plotPositive(size) == plotWidth(size) > 0 /\ plotHeight(size) > 0

\* an svg element as React creates it
emptySvg ==
    [g |-> FALSE, points |-> {}, axes |-> Null, medianLines |-> Null,
     crosshair |-> Null, contours |-> Null]

\* a fade-in transition is running on the contours of the svg
fadingOf(el) == el # Null /\ el.contours # Null /\ Val(el.contours).fading

\* the element rendered although there are no offers
svgElementAlways(prev, offers) == IF prev = Null THEN emptySvg ELSE prev

\* the JSX (ScatterPlot.tsx:873-876): the svg element exists only while
\* there are offers; a new element is empty
svgElement(prev, offers) ==
    IF offers = {} THEN Null
    ELSE IF prev = Null THEN emptySvg ELSE prev

\* the reset effects (ScatterPlot.tsx:290-300): hasAnimatedContours after them
resetEffects(hasAnimated, old, new) ==
    IF <<old.data, old.domain, old.selectedCurrency>>
         # <<new.data, new.domain, new.selectedCurrency>> THEN FALSE
    ELSE IF old.showContours # new.showContours /\ new.showContours THEN FALSE
    ELSE hasAnimated

\* the contour effect that returns before it removes the old contours
contourEffectKeep(el, hasAnimated, stale, in) ==
    IF el = Null THEN [svg |-> el, staleFade |-> stale, ran |-> FALSE]
    ELSE IF ~in.showContours \/ in.data = {} \/ ~plotPositive(in.chartSize)
    THEN [svg |-> [el EXCEPT !.g = TRUE], staleFade |-> stale, ran |-> FALSE]
    ELSE [svg |-> [el EXCEPT !.g = TRUE,
                             !.contours = Some([opacity |-> IF hasAnimated THEN 1 ELSE 0,
                                                fading |-> ~hasAnimated])],
          staleFade |-> stale \/ fadingOf(el),
          ran |-> TRUE]

\* the contour effect (ScatterPlot.tsx:318-372): the old contours are
\* removed; unless the overlay is off, there are no offers or the plot has
\* no size, the density is estimated and the contours are drawn, at opacity
\* 0 with a fade-in transition if they have not been animated yet
contourEffect(el, hasAnimated, stale, in) ==
    IF el = Null THEN [svg |-> el, staleFade |-> stale, ran |-> FALSE]
    ELSE IF ~in.showContours \/ in.data = {} \/ ~plotPositive(in.chartSize)
    THEN [svg |-> [el EXCEPT !.g = TRUE, !.contours = Null],
          staleFade |-> stale \/ fadingOf(el),
          ran |-> FALSE]
    ELSE [svg |-> [el EXCEPT !.g = TRUE,
                             !.contours = Some([opacity |-> IF hasAnimated THEN 1 ELSE 0,
                                                fading |-> ~hasAnimated])],
          staleFade |-> stale \/ fadingOf(el),
          ran |-> TRUE]

\* maybeTransition (ScatterPlot.tsx:424-426): the selection gets a transition
\* unless a drag is going on
maybeTransition(dragging) == ~dragging

\* the main chart effect gets as far as drawing (ScatterPlot.tsx:377-395)
mainDraws(el, hasTooltip, in) ==
    el # Null /\ hasTooltip /\ plotPositive(in.chartSize) /\ in.data # {}

\* the main chart effect without the test of the plot size
mainEffectAnySize(el, hasTooltip, in) ==
    IF el = Null \/ ~hasTooltip THEN el
    ELSE IF in.data = {}
    THEN [el EXCEPT !.g = TRUE, !.points = {}, !.contours = Null]
    ELSE [el EXCEPT !.g = TRUE,
                    !.points = {o.id : o \in in.data},
                    !.axes = Some([domain |-> in.domain,
                                   width |-> plotWidth(in.chartSize),
                                   height |-> plotHeight(in.chartSize)]),
                    !.medianLines = Some(getMarketMedians(in.data))]

\* the main chart effect (ScatterPlot.tsx:376-652): axes, reference lines
\* and market marks (the user point is the variable userPoint)
mainEffect(el, hasTooltip, in) ==
    IF el = Null \/ ~hasTooltip THEN el
    ELSE IF ~plotPositive(in.chartSize) THEN el
    ELSE IF in.data = {}
    THEN [el EXCEPT !.g = TRUE, !.points = {}, !.contours = Null]
    ELSE [el EXCEPT !.g = TRUE,
                    !.points = {o.id : o \in in.data},
                    !.axes = Some([domain |-> in.domain,
                                   width |-> plotWidth(in.chartSize),
                                   height |-> plotHeight(in.chartSize)]),
                    !.medianLines = Some(getMarketMedians(in.data))]

\* the transitions the main chart effect starts on the market marks
\* (ScatterPlot.tsx:520-589): on the marks that leave and on the marks that
\* enter, and through maybeTransition on all marks of the new offers
markTransitionsOf(before, offers, dragging) ==
    LET ids == {o.id : o \in offers}
    IN (IF before \ ids # {} THEN {"exit"} ELSE {})
       \cup (IF ids \ before # {} THEN {"enter"} ELSE {})
       \cup (IF ids # {} /\ maybeTransition(dragging) THEN {"update"} ELSE {})

\* the crosshair lines and the median-difference badges drawn for the data
\* position pos (ScatterPlot.tsx:674-711): the position, the pixels the
\* lines pass through, the differences from the medians the badges show
drawCrosshair(in, pos) ==
    LET medians == getMarketMedians(in.data)
    IN [dataX |-> pos.dataX, dataY |-> pos.dataY,
        x |-> xScale(in.domain, R(plotWidth(in.chartSize)), pos.dataX),
        y |-> yScale(in.domain, R(plotHeight(in.chartSize)), pos.dataY),
        loanDiff |-> RSub(pos.dataX, medians.medianLoanAmount),
        rateDiff |-> RSub(pos.dataY, medians.medianInterestRate)]

\* the crosshair effect (ScatterPlot.tsx:655-844): the crosshairs are
\* removed and, during a drag, drawn at the last data position
crosshairEffect(el, in, dragging, lastDataPos) ==
    IF el = Null THEN el
    ELSE IF ~plotPositive(in.chartSize) THEN el
    ELSE [el EXCEPT !.g = TRUE,
                    !.crosshair = IF dragging /\ lastDataPos # Null
                                  THEN Some(drawCrosshair(in, Val(lastDataPos)))
                                  ELSE Null]

\* one render pass of the mounted chart from the inputs old to the inputs
\* new: the JSX and the effects whose dependencies changed, in the order of
\* their declaration.  prev = [svg, hasAnimatedContours, staleFade,
\* medianCall, sizeSkips]; offerSet: the user offer object was replaced
chartEffects(prev, old, new, dragging, lastDataPos, offerSet, hasTooltip) ==
    LET svg0 == svgElement(prev.svg, new.data)
        stale0 == prev.staleFade \/ (svg0 = Null /\ fadingOf(prev.svg))
        hasAnimated == resetEffects(prev.hasAnimatedContours, old, new)
        contourRuns == old # new
        c == IF contourRuns THEN contourEffect(svg0, hasAnimated, stale0, new)
             ELSE [svg |-> svg0, staleFade |-> stale0, ran |-> FALSE]
        mainRuns == offerSet
                    \/ <<old.data, old.selectedCurrency, old.domain, old.chartSize>>
                         # <<new.data, new.selectedCurrency, new.domain, new.chartSize>>
        svg2 == IF mainRuns THEN mainEffect(c.svg, hasTooltip, new) ELSE c.svg
    IN [svg |-> crosshairEffect(svg2, new, dragging, lastDataPos),
        hasAnimatedContours |-> hasAnimated,
        staleFade |-> c.staleFade,
        medianCall |-> IF mainRuns /\ mainDraws(c.svg, hasTooltip, new)
                       THEN Some(callMedians(new.data)) ELSE prev.medianCall,
        sizeSkips |-> prev.sizeSkips
                      \/ (svg0 # Null /\ ~plotPositive(new.chartSize)),
        ran |-> c.ran,
        drew |-> mainRuns /\ mainDraws(c.svg, hasTooltip, new),
        transitions |-> IF mainRuns /\ mainDraws(c.svg, hasTooltip, new)
                        THEN markTransitionsOf(c.svg.points, new.data, dragging)
                        ELSE {}]

\* radius of the user point (ScatterPlot.tsx:601)
UserPointRadius == 12
\* half side of a square inside the circle: two thirds of the radius
HitHalfSide == (2 * UserPointRadius) \div 3

\* the history clock stops one unit past the throttle delay
ClockCap == ThrottleDelay + 1

(***************************************************************************)
(* State                                                                   *)
(***************************************************************************)
VARIABLES
    chartMounted,        \* the ScatterPlot component is mounted
    appMounted,          \* the App component is mounted
    isDraggingRef,       \* ScatterPlot: isDraggingRef.current
    lastDataPosRef,      \* ScatterPlot: lastDataPosRef.current
    lastDomainRef,       \* ScatterPlot: lastDomainRef.current
    throttleTimeoutRef,  \* ScatterPlot: the pending timeout and its closure
    dragTooltipRef,      \* ScatterPlot: the drag tooltip node
    userPoint,           \* ScatterPlot: cx, cy of the .user-point circle
    gestureUserOffer,    \* userOffer closed over by the handlers of the gesture
    domain,              \* App: domain state
    userOffer,           \* App: user offer state
    dragActiveRef,       \* App: dragActiveRef.current
    dragPosRef,          \* App: dragPosRef.current
    expandIntervalRef,   \* App: the interval handle (time left to next tick)
    drags,               \* history: number of drag gestures started
    commits,             \* history: number of committed updates delivered
    anchor,              \* history: pointer and data value at drag-start
    pointer,             \* history: last pointer position of the gesture
    moved,               \* history: raw data value of the last pointer-move
    staleTimeout,        \* history: the pending timeout is of an ended session
    expandCount,         \* history: number of ticks that changed the domain
    sinceLive,           \* history: time since the last live update (capped)
    liveGap,             \* history: time between the last two live updates
    ownerLast,           \* history: the last update the owner received
    data,                \* App: the offers passed to the chart (filteredOffers)
    tickBase,            \* history: the domain before the current run of ticks
    medianCall,          \* the last call of getMarketMedians: argument and result
    tooltipRef,          \* ScatterPlot: the hover tooltip node
    bodyNodes,           \* document.body: number of tooltip nodes of each kind
    chartSize,           \* ScatterPlot: chartSize state (container client size)
    showContours,        \* App: showContours state
    selectedCurrency,    \* useLoanOffers: selectedCurrency state
    svg,                 \* the svg element and what is drawn in it, or Null
    hasAnimatedContours, \* ScatterPlot: hasAnimatedContours.current
    staleFade,           \* a fade-in transition of removed contours is pending
    densityRan,          \* history: the last step ran the density estimation
    sizeSkips,           \* history: a render pass was skipped for the plot size
    markTransitions,     \* history: transitions the last step started on market marks
    mapperCall,          \* the last use of the coordinate mapper: inputs and results
    markNodes,           \* the data join on its own: the mark nodes and their data
    ageCall,             \* the last call of formatAge: the clock, the argument, the result
    colourCall,          \* the last use of timeScale: the timestamps and the parameters
    ownerInit,           \* App: the offers, the duration filter and the initialisation effect
    timers               \* the timer handles on their own and the timers the runtime holds

vars == <<chartMounted, appMounted, isDraggingRef, lastDataPosRef, lastDomainRef,
          throttleTimeoutRef, dragTooltipRef, userPoint, gestureUserOffer,
          domain, userOffer, dragActiveRef, dragPosRef, expandIntervalRef,
          drags, commits, anchor, pointer, moved, staleTimeout, expandCount, sinceLive,
          liveGap, ownerLast, data, tickBase, medianCall, tooltipRef, bodyNodes,
          chartSize, showContours, selectedCurrency, svg, hasAnimatedContours,
          staleFade, densityRan, sizeSkips, markTransitions, mapperCall,
          markNodes, ageCall, colourCall, ownerInit, timers>>

appVars == <<domain, userOffer, dragActiveRef, dragPosRef, expandIntervalRef>>
\* the records of helpers applied on their own
probeVars == <<mapperCall, markNodes, ageCall, colourCall, ownerInit, timers>>
\* the state of the chart and of its owner
liveVars == <<chartMounted, appMounted, isDraggingRef, lastDataPosRef,
              lastDomainRef, throttleTimeoutRef, dragTooltipRef, userPoint,
              gestureUserOffer, domain, userOffer, dragActiveRef, dragPosRef,
              expandIntervalRef, drags, commits, anchor, pointer, moved,
              staleTimeout, expandCount, sinceLive, liveGap, ownerLast, data,
              tickBase, medianCall, tooltipRef, bodyNodes, chartSize,
              showContours, selectedCurrency, svg, hasAnimatedContours,
              staleFade, densityRan, sizeSkips, markTransitions>>
clockVars == <<sinceLive, liveGap>>
countVars == <<drags, commits>>
\* the inputs of the chart besides the offers, the domain and the user offer
inputVars == <<chartSize, showContours, selectedCurrency>>
\* what a render pass of the chart writes
svgVars == <<svg, hasAnimatedContours, staleFade, medianCall, sizeSkips>>
\* what a step without a render pass leaves alone
viewVars == <<tooltipRef, bodyNodes, inputVars, svgVars>>

\* the inputs of the chart's render pass
viewInputs ==
    [data |-> data, domain |-> domain, chartSize |-> chartSize,
     showContours |-> showContours, selectedCurrency |-> selectedCurrency]

\* what the render passes so far have left behind
svgState ==
    [svg |-> svg, hasAnimatedContours |-> hasAnimatedContours,
     staleFade |-> staleFade, medianCall |-> medianCall, sizeSkips |-> sizeSkips]

\* the first drawing of the chart: it mounts with no size and draws once its
\* container has been measured (ScatterPlot.tsx:183-198)
firstDraw(offers, dom) ==
    LET in == [data |-> offers, domain |-> dom,
               chartSize |-> [width |-> PlotWidth + MarginLeft + MarginRight,
                              height |-> PlotHeight + MarginTop + MarginBottom],
               showContours |-> TRUE, selectedCurrency |-> "WETH"]
    IN chartEffects([svg |-> Null, hasAnimatedContours |-> FALSE,
                     staleFade |-> FALSE, medianCall |-> Null, sizeSkips |-> FALSE],
                    [in EXCEPT !.chartSize = [width |-> 0, height |-> 0]], in,
                    FALSE, Null, TRUE, TRUE)

\* a step without a render pass
noRender ==
    /\ densityRan' = FALSE
    /\ markTransitions' = {}
    /\ UNCHANGED <<viewVars, probeVars>>

\* the inputs of the last pass as the dependency lists compare them with
\* those of a pass that follows a new domain object: the new object differs
\* from the one it replaces even when every bound has the same value
beforeNewDomain == [viewInputs EXCEPT !.domain = [x |-> <<>>, y |-> <<>>]]

\* the render pass that follows a state change, while the chart is mounted,
\* old being the inputs of the pass before
RenderPassFrom(old, dragging, lastDataPos, offerSet) ==
    \E out \in {IF chartMounted
                 THEN chartEffects(svgState, old, viewInputs', dragging,
                                   lastDataPos, offerSet, tooltipRef # Null)
                 ELSE [svg |-> svg, hasAnimatedContours |-> hasAnimatedContours,
                       staleFade |-> staleFade, medianCall |-> medianCall,
                       sizeSkips |-> sizeSkips, ran |-> FALSE, drew |-> FALSE,
                       transitions |-> {}]} :
       /\ svg' = out.svg
       /\ hasAnimatedContours' = out.hasAnimatedContours
       /\ staleFade' = out.staleFade
       /\ medianCall' = out.medianCall
       /\ sizeSkips' = out.sizeSkips
       /\ densityRan' = out.ran
       /\ markTransitions' = out.transitions
       /\ UNCHANGED probeVars

\* the render pass that follows a state change of values
RenderPass(dragging, lastDataPos, offerSet) ==
    RenderPassFrom(viewInputs, dragging, lastDataPos, offerSet)

(***************************************************************************)
(* App.tsx: the duration filter and the initialisation of the user offer.  *)
(* An offer is a record [id, loanAmount, interestRate, duration], duration *)
(* Null (undefined) or Some(days); the user offer here is a record         *)
(* [loanAmount, interestRate, duration, collection, collectionAddress].    *)
(***************************************************************************)
\* filteredOffers with the duration filter turned around: the offers of
\* every other duration
filteredOffersOfOthers(currencyOffers, duration) ==
    LET hasId(o) == o.id # ""
        others(o) == o.duration # Null /\ o.duration # duration
    IN SelectSeq(IF duration = Null THEN currencyOffers
                 ELSE SelectSeq(currencyOffers, others), hasId)

\* filteredOffers (App.tsx:107-118): the offers of the user offer's
\* duration, or all of them when it has none, that have an id; an offer
\* without a duration matches no duration
filteredOffersOf(currencyOffers, duration) ==
    LET hasId(o) == o.id # ""
        sameDuration(o) == o.duration # Null /\ o.duration = duration
    IN SelectSeq(IF duration = Null THEN currencyOffers
                 ELSE SelectSeq(currencyOffers, sameDuration), hasId)

\* the k-th smallest of the values of a list
rankOf(values, k) ==
    CHOOSE v \in {values[i] : i \in DOMAIN values} :
        /\ Cardinality({i \in DOMAIN values : RLt(values[i], v)}) < k
        /\ k <= Cardinality({i \in DOMAIN values : RLe(values[i], v)})

\* d3.median of a list of values that is not empty: the middle value, or the mean of
\* the two middle values
d3medianOf(values) ==
    LET n == Len(values)
    IN IF n % 2 = 1 THEN rankOf(values, (n + 1) \div 2)
       ELSE RDiv(RAdd(rankOf(values, n \div 2), rankOf(values, n \div 2 + 1)), R(2))

\* the reduce of useUserOffer.ts:124-126 from the position i on, a being the
\* accumulator: the later value wins only with more occurrences
RECURSIVE reduceCommon(_, _, _)
reduceCommon(arr, a, i) ==
    IF i > Len(arr) THEN a
    ELSE LET count(v) == Cardinality({j \in DOMAIN arr : arr[j] = v})
         IN reduceCommon(arr, IF count(a) >= count(arr[i]) THEN a ELSE arr[i], i + 1)

\* mostCommonDuration (useUserOffer.ts:120-127)
mostCommonDuration(offers) ==
    LET defined(o) == o.duration # Null
        durations == [i \in DOMAIN SelectSeq(offers, defined) |->
                        SelectSeq(offers, defined)[i].duration]
    IN IF Len(durations) > 0 THEN reduceCommon(durations, durations[1], 2) ELSE Null

\* the initialisation effect (App.tsx:148-157) for the user offer prev and
\* the filtered offers given, which are not empty: initializeWithMedianValues
\* (useUserOffer.ts:108-149) replaces the user offer, and the collection
\* address is put back when there is one
initialiseUserOffer(prev, offers) ==
    [loanAmount |-> d3medianOf([i \in DOMAIN offers |-> offers[i].loanAmount]),
     interestRate |-> d3medianOf([i \in DOMAIN offers |-> offers[i].interestRate]),
     duration |-> mostCommonDuration(offers),
     collection |-> Null,
     collectionAddress |-> prev.collectionAddress]

\* the owner after its first render and effects: the offers are loading, the
\* memo is computed and the initialisation effect has run without effect
ownerMounts ==
    [loading |-> TRUE,
     currencyOffers |-> <<>>,
     userOffer |-> [loanAmount |-> R(1), interestRate |-> R(5), duration |-> Null,
                    collection |-> Null, collectionAddress |-> Null],
     filteredOffers |-> <<>>,
     offersNew |-> FALSE,
     memoDeps |-> <<Null, Null>>,
     effectDeps |-> <<TRUE, Null>>,
     pending |-> FALSE,
     runs |-> 0]

\* the state once the offers are loaded and the chart is drawn, for the
\* offers, the user offer and the domain given
InitWith(offers, offer, dom) ==
    /\ chartMounted = TRUE
    /\ appMounted = TRUE
    /\ isDraggingRef = FALSE
    /\ lastDataPosRef = Null
    /\ lastDomainRef = dom
    /\ throttleTimeoutRef = Null
    /\ LET made == tooltipEffect(Null, Null, [tooltip |-> 0, dragTooltip |-> 0])
       IN /\ tooltipRef = made.tooltipRef
          /\ dragTooltipRef = made.dragTooltipRef
          /\ bodyNodes = made.body
    /\ userOffer = offer
    /\ domain = dom
    /\ userPoint = IF offers = {} THEN Null ELSE drawUserPoint(FALSE, Null, offer, dom)
    /\ gestureUserOffer = offer
    /\ dragActiveRef = FALSE
    /\ dragPosRef = Null
    /\ expandIntervalRef = Null
    /\ drags = 0
    /\ commits = 0
    /\ anchor = Null
    /\ pointer = Null
    /\ moved = Null
    /\ staleTimeout = FALSE
    /\ expandCount = 0
    /\ sinceLive = ClockCap
    /\ liveGap = ClockCap
    /\ ownerLast = Null
    /\ data = offers
    /\ tickBase = dom
    /\ chartSize = [width |-> PlotWidth + MarginLeft + MarginRight,
                    height |-> PlotHeight + MarginTop + MarginBottom]
    /\ showContours = TRUE
    /\ selectedCurrency = "WETH"
    /\ LET first == firstDraw(offers, dom)
       IN /\ svg = first.svg
          /\ hasAnimatedContours = first.hasAnimatedContours
          /\ staleFade = first.staleFade
          /\ medianCall = first.medianCall
          /\ sizeSkips = first.sizeSkips
    /\ densityRan = FALSE
    /\ markTransitions = {}
    /\ mapperCall = Null
    /\ markNodes = [nodes |-> <<>>, created |-> 0, data |-> <<>>]
    /\ ageCall = Null
    /\ colourCall = Null
    /\ ownerInit = ownerMounts
    /\ timers = [throttleTimeoutRef |-> Null, expandIntervalRef |-> Null,
                 timeouts |-> {}, intervals |-> {}, made |-> 0]

\* the offers are loaded and the user offer is set to their medians
Init == InitWith(Offers, initializeWithMedianValues(Offers), loadedDomain)

(***************************************************************************)
(* Operations                                                              *)
(***************************************************************************)
appState ==
    [userOffer |-> userOffer, dragActiveRef |-> dragActiveRef,
     dragPosRef |-> dragPosRef, expandIntervalRef |-> expandIntervalRef]

\* the pointer p is on the user point: within the square of half side
\* HitHalfSide inscribed in its circle
onUserPoint(p) ==
    /\ userPoint # Null
    /\ RLe(RAbs(RSub(R(p[1]), userPoint.cx)), R(HitHalfSide))
    /\ RLe(RAbs(RSub(R(p[2]), userPoint.cy)), R(HitHalfSide))

\* drag 'start' handler (ScatterPlot.tsx:259-268), for at most the number
\* of gestures given
dragStarts(p, most) ==
    /\ chartMounted
    /\ ~isDraggingRef
    /\ onUserPoint(p)
    /\ drags < most
    /\ drags' = drags + 1
    /\ isDraggingRef' = TRUE
    /\ dragTooltipRef' = IF dragTooltipRef = Null THEN Null
                         ELSE Some([Val(dragTooltipRef) EXCEPT !.visible = TRUE])
    /\ gestureUserOffer' = userOffer
    /\ anchor' = Some([px |-> p,
                       dataX |-> xInvert(lastDomainRef, R(PlotWidth), R(p[1])),
                       dataY |-> yInvert(lastDomainRef, R(PlotHeight), R(p[2]))])
    /\ pointer' = Some(p)
    /\ UNCHANGED <<chartMounted, appMounted, lastDataPosRef, lastDomainRef,
                   throttleTimeoutRef, userPoint, appVars, moved, staleTimeout,
                   expandCount, commits, clockVars, ownerLast, data, tickBase>>
    /\ noRender

\* the 'start' handler that leaves the drag tooltip as it is
DragStartTooltipKept(p) ==
    /\ chartMounted
    /\ ~isDraggingRef
    /\ onUserPoint(p)
    /\ drags < MaxDrags
    /\ drags' = drags + 1
    /\ isDraggingRef' = TRUE
    /\ dragTooltipRef' = dragTooltipRef
    /\ gestureUserOffer' = userOffer
    /\ anchor' = Some([px |-> p,
                       dataX |-> xInvert(lastDomainRef, R(PlotWidth), R(p[1])),
                       dataY |-> yInvert(lastDomainRef, R(PlotHeight), R(p[2]))])
    /\ pointer' = Some(p)
    /\ UNCHANGED <<chartMounted, appMounted, lastDataPosRef, lastDomainRef,
                   throttleTimeoutRef, userPoint, appVars, moved, staleTimeout,
                   expandCount, commits, clockVars, ownerLast, data, tickBase>>
    /\ noRender

\* drag 'start' handler (ScatterPlot.tsx:259-268)
DragStart(p) == dragStarts(p, MaxDrags)

\* handleDrag (ScatterPlot.tsx:201-252), the 'drag' handler; it returns at
\* once when the svg is gone
handleDrag(p) ==
    /\ isDraggingRef
    /\ chartMounted
    /\ svg # Null
    /\ LET ex == R(p[1])
           ey == R(p[2])
           newDataX == xInvert(lastDomainRef, R(PlotWidth), ex)
           newDataY == yInvert(lastDomainRef, R(PlotHeight), ey)
           clampedX == clampToDomain(lastDomainRef.x, newDataX)
           clampedY == clampToDomain(lastDomainRef.y, newDataY)
       IN /\ lastDataPosRef' = Some([dataX |-> clampedX, dataY |-> clampedY])
          /\ dragTooltipRef' =
                IF dragTooltipRef = Null THEN Null
                ELSE Some([Val(dragTooltipRef) EXCEPT
                             !.at = Some(<<ex, ey>>),
                             !.text = Some(<<clampedX, clampedY>>)])
          /\ throttleTimeoutRef' =
                throttledExpand(throttleTimeoutRef,
                    [update |-> liveUpdate(clampedX, clampedY, ex, ey),
                     made |-> [at |-> p, rawX |-> newDataX, rawY |-> newDataY]])
          /\ moved' = Some([rawX |-> newDataX, rawY |-> newDataY,
                            dom |-> lastDomainRef])
    /\ pointer' = Some(p)
    /\ staleTimeout' = IF throttleTimeoutRef = Null THEN FALSE ELSE staleTimeout
    /\ UNCHANGED <<chartMounted, appMounted, isDraggingRef, lastDomainRef,
                   userPoint, gestureUserOffer, appVars, anchor,
                   countVars, expandCount, clockVars, ownerLast, data, tickBase>>
    /\ noRender

\* the render that follows a state change of the owner: the chart's effects
\* copy the domain (ScatterPlot.tsx:178-180) and redraw the user point
Rerender(dragging, lastDataPos) ==
    /\ lastDomainRef' = IF chartMounted THEN domain' ELSE lastDomainRef
    /\ userPoint' = IF chartMounted /\ data # {}
                    THEN drawUserPoint(dragging, lastDataPos, userOffer', domain')
                    ELSE userPoint

\* the owner receives an update: handleUserOfferDrag, then (when mounted) the
\* render with the new user offer and the domain recompute effect
Deliver(update) ==
    LET app == handleUserOfferDrag(appState, update)
    IN /\ userOffer' = IF appMounted THEN app.userOffer ELSE userOffer
       /\ dragActiveRef' = app.dragActiveRef
       /\ dragPosRef' = app.dragPosRef
       /\ expandIntervalRef' = app.expandIntervalRef
       /\ domain' = IF appMounted THEN domainEffect(data, app.userOffer, domain)
                    ELSE domain
       /\ tickBase' = domain'
       /\ UNCHANGED data

\* the throttle timeout fires (ScatterPlot.tsx:172-175): it runs the closure
\* it was armed with and clears the handle
throttleFires ==
    /\ throttleTimeoutRef # Null
    /\ Val(throttleTimeoutRef).left = 0
    /\ LET fn == Val(throttleTimeoutRef).fn
       IN /\ Deliver(fn.update)
          /\ ownerLast' = Some([update |-> fn.update, made |-> Some(fn.made),
                                active |-> isDraggingRef, stale |-> staleTimeout,
                                latest |-> (pointer = Some(fn.made.at)),
                                chartMounted |-> chartMounted,
                                appMounted |-> appMounted])
    /\ throttleTimeoutRef' = Null
    /\ staleTimeout' = FALSE
    /\ Rerender(isDraggingRef, lastDataPosRef)
    /\ UNCHANGED <<chartMounted, appMounted, isDraggingRef, lastDataPosRef,
                   dragTooltipRef, gestureUserOffer, countVars, anchor, pointer,
                   moved, expandCount>>
    /\ UNCHANGED <<tooltipRef, bodyNodes, inputVars>>
    /\ RenderPass(isDraggingRef, lastDataPosRef, TRUE)

ThrottleFire == throttleFires /\ UNCHANGED clockVars

\* the 'end' handler that leaves the last data position of the session in
\* place
dragEndsKeepPosition(hasCallback) ==
    /\ isDraggingRef
    /\ isDraggingRef' = FALSE
    /\ LET pos == IF lastDataPosRef # Null THEN Val(lastDataPosRef)
                  ELSE [dataX |-> gestureUserOffer.loanAmount,
                        dataY |-> gestureUserOffer.interestRate]
           update == committedUpdate(pos.dataX, pos.dataY)
       IN IF hasCallback
          THEN /\ Deliver(update)
               /\ ownerLast' = Some([update |-> update, made |-> moved,
                                     active |-> FALSE, stale |-> FALSE,
                                     latest |-> TRUE,
                                     chartMounted |-> chartMounted,
                                     appMounted |-> appMounted])
               /\ commits' = commits + 1
               /\ Rerender(FALSE, Null)
               /\ UNCHANGED <<tooltipRef, bodyNodes, inputVars>>
               /\ RenderPass(FALSE, Null, TRUE)
          ELSE /\ UNCHANGED <<appVars, ownerLast, commits, lastDomainRef, userPoint,
                              data, tickBase>>
               /\ noRender
    /\ lastDataPosRef' = lastDataPosRef
    /\ dragTooltipRef' = IF dragTooltipRef = Null THEN Null
                         ELSE Some([Val(dragTooltipRef) EXCEPT !.visible = FALSE])
    /\ anchor' = Null
    /\ pointer' = Null
    /\ moved' = Null
    /\ staleTimeout' = (throttleTimeoutRef # Null)
    /\ UNCHANGED <<chartMounted, appMounted, throttleTimeoutRef, gestureUserOffer,
                   drags, expandCount, clockVars>>

\* drag 'end' handler (ScatterPlot.tsx:270-283); hasCallback is the test
\* typeof onUserOfferDrag === 'function'
dragEnds(hasCallback) ==
    /\ isDraggingRef
    /\ isDraggingRef' = FALSE
    /\ LET pos == IF lastDataPosRef # Null THEN Val(lastDataPosRef)
                  ELSE [dataX |-> gestureUserOffer.loanAmount,
                        dataY |-> gestureUserOffer.interestRate]
           update == committedUpdate(pos.dataX, pos.dataY)
       IN IF hasCallback
          THEN /\ Deliver(update)
               /\ ownerLast' = Some([update |-> update, made |-> moved,
                                     active |-> FALSE, stale |-> FALSE,
                                     latest |-> TRUE,
                                     chartMounted |-> chartMounted,
                                     appMounted |-> appMounted])
               /\ commits' = commits + 1
               /\ Rerender(FALSE, Null)
               /\ UNCHANGED <<tooltipRef, bodyNodes, inputVars>>
               /\ RenderPass(FALSE, Null, TRUE)
          ELSE /\ UNCHANGED <<appVars, ownerLast, commits, lastDomainRef, userPoint,
                              data, tickBase>>
               /\ noRender
    /\ lastDataPosRef' = Null
    /\ dragTooltipRef' = IF dragTooltipRef = Null THEN Null
                         ELSE Some([Val(dragTooltipRef) EXCEPT !.visible = FALSE])
    /\ anchor' = Null
    /\ pointer' = Null
    /\ moved' = Null
    /\ staleTimeout' = (throttleTimeoutRef # Null)
    /\ UNCHANGED <<chartMounted, appMounted, throttleTimeoutRef, gestureUserOffer,
                   drags, expandCount, clockVars>>

\* the 'end' handler with the commit suppressed while a throttle timeout is
\* pending
DragEndUnlessThrottled == dragEnds(throttleTimeoutRef = Null)

\* the 'end' handler as the owner binds it: App passes handleUserOfferDrag
DragEnd == dragEnds(TRUE)

\* the flag changed of the state updater (App.tsx:171-199) for the drag
\* position pos: some edge is triggered
edgeTriggered(pos) ==
    LET near == <<1, EdgeThresholdInv>>
        far == RSub(R(1), near)
    IN \/ RLe(RMul(pos.width, far), pos.x)
       \/ RLe(pos.x, RMul(pos.width, near))
       \/ RLe(pos.y, RMul(pos.height, near))
       \/ RLe(RMul(pos.height, far), pos.y)

\* one expansion tick hands a new domain object to the state
\* (App.tsx:164, 200-212): the drag is active and the updater's flag is set
expandPublishes ==
    dragActiveRef /\ dragPosRef # Null /\ edgeTriggered(Val(dragPosRef))

\* checkAndExpandDomain with the updater applied twice in one tick
checkAndExpandDomainTwice ==
    IF ~dragActiveRef \/ dragPosRef = Null THEN domain
    ELSE expandUpdater(expandUpdater(domain, Val(dragPosRef)), Val(dragPosRef))

\* the domain one expansion tick leaves behind
checkAndExpandDomain ==
    IF ~dragActiveRef \/ dragPosRef = Null THEN domain
    ELSE expandUpdater(domain, Val(dragPosRef))

\* the expansion interval fires (App.tsx:220): checkAndExpandDomain
\* (App.tsx:163-215) and, when it set a new domain object, the render
IntervalTick ==
    /\ expandIntervalRef # Null
    /\ Val(expandIntervalRef) = 0
    /\ checkAndExpandDomain # domain => expandCount < MaxExpand
    /\ domain' = IF appMounted THEN checkAndExpandDomain ELSE domain
    /\ expandCount' = IF domain' # domain THEN expandCount + 1 ELSE expandCount
    /\ expandIntervalRef' = Some(IntervalPeriod)
    /\ lastDomainRef' = IF chartMounted THEN domain' ELSE lastDomainRef
    /\ userPoint' = IF chartMounted /\ data # {} /\ appMounted /\ expandPublishes
                    THEN drawUserPoint(isDraggingRef, lastDataPosRef, userOffer, domain')
                    ELSE userPoint
    /\ UNCHANGED <<chartMounted, appMounted, isDraggingRef, lastDataPosRef,
                   throttleTimeoutRef, dragTooltipRef, gestureUserOffer,
                   userOffer, dragActiveRef, dragPosRef, countVars, anchor,
                   pointer, moved, staleTimeout, clockVars, ownerLast, data,
                   tickBase>>
    /\ IF appMounted /\ expandPublishes
       THEN /\ UNCHANGED <<tooltipRef, bodyNodes, inputVars>>
            /\ RenderPassFrom(beforeNewDomain, isDraggingRef, lastDataPosRef, FALSE)
       ELSE noRender

\* a timer is due now
throttleDue == throttleTimeoutRef # Null /\ Val(throttleTimeoutRef).left = 0
intervalDue ==
    /\ expandIntervalRef # Null
    /\ Val(expandIntervalRef) = 0
    /\ (checkAndExpandDomain # domain => expandCount < MaxExpand)

\* one unit of time passes for the timers; a timer that is due runs first
timePasses ==
    /\ ~throttleDue
    /\ ~intervalDue
    /\ throttleTimeoutRef' =
          IF throttleTimeoutRef = Null THEN Null
          ELSE Some([Val(throttleTimeoutRef) EXCEPT !.left = @ - 1])
    /\ expandIntervalRef' =
          IF expandIntervalRef = Null \/ Val(expandIntervalRef) = 0 THEN expandIntervalRef
          ELSE Some(Val(expandIntervalRef) - 1)
    /\ UNCHANGED <<chartMounted, appMounted, isDraggingRef, lastDataPosRef,
                   lastDomainRef, dragTooltipRef, userPoint, gestureUserOffer,
                   domain, userOffer, dragActiveRef, dragPosRef, countVars,
                   anchor, pointer, moved, staleTimeout, expandCount, ownerLast,
                   data, tickBase>>
    /\ noRender

Tick == timePasses /\ UNCHANGED clockVars

\* the owner stops rendering the chart (loading or error, App.tsx:299-315):
\* the chart's only cleanup removes the tooltips (ScatterPlot.tsx:140-149)
ChartUnmount ==
    /\ chartMounted
    /\ appMounted
    /\ chartMounted' = FALSE
    /\ LET left == tooltipCleanup(tooltipRef, dragTooltipRef, bodyNodes)
       IN /\ tooltipRef' = left.tooltipRef
          /\ dragTooltipRef' = left.dragTooltipRef
          /\ bodyNodes' = left.body
    /\ UNCHANGED <<appMounted, isDraggingRef, lastDataPosRef, lastDomainRef,
                   throttleTimeoutRef, userPoint, gestureUserOffer, appVars,
                   anchor, pointer, moved, staleTimeout, countVars, expandCount, clockVars,
                   ownerLast, data, tickBase, medianCall, inputVars,
                   hasAnimatedContours, sizeSkips>>
    /\ svg' = Null
    /\ staleFade' = (staleFade \/ fadingOf(svg))
    /\ densityRan' = FALSE
    /\ markTransitions' = {}
    /\ UNCHANGED probeVars

\* the owner is torn down: the chart's cleanup and the owner's cleanup
\* (App.tsx:279-283)
AppUnmount ==
    /\ appMounted
    /\ appMounted' = FALSE
    /\ chartMounted' = FALSE
    /\ LET left == tooltipCleanup(tooltipRef, dragTooltipRef, bodyNodes)
       IN /\ tooltipRef' = left.tooltipRef
          /\ dragTooltipRef' = left.dragTooltipRef
          /\ bodyNodes' = left.body
    /\ expandIntervalRef' = stopExpandInterval(expandIntervalRef)
    /\ UNCHANGED <<isDraggingRef, lastDataPosRef, lastDomainRef,
                   throttleTimeoutRef, userPoint, gestureUserOffer, domain,
                   userOffer, dragActiveRef, dragPosRef, anchor, pointer, moved,
                   staleTimeout, countVars, expandCount, clockVars, ownerLast,
                   data, tickBase, medianCall, inputVars, hasAnimatedContours,
                   sizeSkips>>
    /\ svg' = Null
    /\ staleFade' = (staleFade \/ fadingOf(svg))
    /\ densityRan' = FALSE
    /\ markTransitions' = {}
    /\ UNCHANGED probeVars

\* the chart and its owner while mounted
Next ==
    \/ \E p \in Pointers : DragStart(p)
    \/ \E p \in Pointers : handleDrag(p)
    \/ DragEnd
    \/ ThrottleFire
    \/ IntervalTick
    \/ Tick

Spec == Init /\ [][Next]_vars

\* the same with teardown of the chart or of the owner at any moment
NextTeardown ==
    \/ Next
    \/ ChartUnmount
    \/ AppUnmount

SpecTeardown == Init /\ [][NextTeardown]_vars

\* the same while mounted, with the history clock running: the time between
\* live updates is measured
ThrottleFireClocked ==
    /\ throttleFires
    /\ liveGap' = sinceLive
    /\ sinceLive' = 0

TickClocked ==
    /\ timePasses
    /\ sinceLive' = IF sinceLive < ClockCap THEN sinceLive + 1 ELSE sinceLive
    /\ UNCHANGED liveGap

\* the pointer positions of the clocked runs: the middle and beyond the
\* bottom-right corner
ClockPointers ==
    {<<PlotWidth \div 2, PlotHeight \div 2>>,
     <<PlotWidth + 2, PlotHeight + 1>>}

NextClock ==
    \/ \E p \in ClockPointers : DragStart(p)
    \/ \E p \in ClockPointers : handleDrag(p)
    \/ DragEnd
    \/ ThrottleFireClocked
    \/ IntervalTick
    \/ TickClocked

SpecClock == Init /\ [][NextClock]_vars

(***************************************************************************)
(* The domain computations on their own: getInitialDomain, the recompute   *)
(* effect and checkAndExpandDomain applied to inputs from small sets       *)
(***************************************************************************)
\* offer lists: none, a single offer, the loaded offers
OfferSets ==
    {{}, {[id |-> "a", loanAmount |-> R(10), interestRate |-> R(5)]}, Offers}

\* user offers with non-negative principal and rate
UserOffers ==
    {[loanAmount |-> R(0), interestRate |-> R(0)],
     [loanAmount |-> R(20), interestRate |-> R(10)],
     [loanAmount |-> R(41), interestRate |-> R(10)],
     [loanAmount |-> R(100), interestRate |-> R(10)]}

\* drag positions: the top-left corner, the right edge, the bottom edge, the
\* middle, beyond the bottom-right corner
EdgePositions ==
    {<<0, 0>>, <<PlotWidth, PlotHeight \div 2>>, <<PlotWidth \div 2, PlotHeight>>,
     <<PlotWidth \div 2, PlotHeight \div 2>>, <<PlotWidth + 2, PlotHeight + 1>>}

\* the initial computation of the domain (App.tsx:82-87)
InitDomain ==
    \E offers \in OfferSets : \E offer \in UserOffers :
        InitWith(offers, offer, getInitialDomain(offers, Some(offer)))

\* the owner receives a live update for the position p carrying the offer u:
\* handleUserOfferDrag, the domain recompute effect and the render
OwnerReceives(u, p) ==
    /\ Deliver(liveUpdate(u.loanAmount, u.interestRate, R(p[1]), R(p[2])))
    /\ Rerender(isDraggingRef, lastDataPosRef)
    /\ UNCHANGED <<chartMounted, appMounted, isDraggingRef, lastDataPosRef,
                   throttleTimeoutRef, dragTooltipRef, gestureUserOffer,
                   countVars, anchor, pointer, moved, staleTimeout, expandCount,
                   clockVars, ownerLast>>
    /\ UNCHANGED <<tooltipRef, bodyNodes, inputVars>>
    /\ RenderPass(isDraggingRef, lastDataPosRef, TRUE)

\* one call of checkAndExpandDomain (App.tsx:163-215) and the render
ExpandCall ==
    /\ expandCount < MaxCalls
    /\ expandCount' = expandCount + 1
    /\ domain' = checkAndExpandDomain
    /\ lastDomainRef' = domain'
    /\ userPoint' = IF data # {} /\ expandPublishes
                    THEN drawUserPoint(isDraggingRef, lastDataPosRef, userOffer, domain')
                    ELSE userPoint
    /\ UNCHANGED <<chartMounted, appMounted, isDraggingRef, lastDataPosRef,
                   throttleTimeoutRef, dragTooltipRef, gestureUserOffer,
                   userOffer, dragActiveRef, dragPosRef, expandIntervalRef,
                   countVars, anchor, pointer, moved, staleTimeout, clockVars,
                   ownerLast, data, tickBase>>
    /\ IF expandPublishes
       THEN /\ UNCHANGED <<tooltipRef, bodyNodes, inputVars>>
            /\ RenderPassFrom(beforeNewDomain, isDraggingRef, lastDataPosRef, FALSE)
       ELSE noRender

NextDomain ==
    \/ \E u \in UserOffers : \E p \in EdgePositions : OwnerReceives(u, p)
    \/ ExpandCall

SpecDomain == InitDomain /\ [][NextDomain]_vars

(***************************************************************************)
(* getMarketMedians on its own, applied to lists from a small pool         *)
(***************************************************************************)
\* records with an id and records lacking one (the id is the empty string)
MedianPool ==
    {[id |-> "a", loanAmount |-> R(1), interestRate |-> R(5)],
     [id |-> "b", loanAmount |-> R(3), interestRate |-> R(7)],
     [id |-> "c", loanAmount |-> R(2), interestRate |-> R(9)],
     [id |-> "d", loanAmount |-> R(3), interestRate |-> R(6)],
     [id |-> "e", loanAmount |-> R(8), interestRate |-> R(5)],
     [id |-> "", loanAmount |-> R(100), interestRate |-> R(50)],
     [id |-> "", loanAmount |-> R(0), interestRate |-> R(0)]}

\* getMarketMedians(offers)
MeasureMedians(offers) ==
    /\ medianCall' = Some(callMedians(offers))
    /\ UNCHANGED <<chartMounted, appMounted, isDraggingRef, lastDataPosRef,
                   lastDomainRef, throttleTimeoutRef, dragTooltipRef, userPoint,
                   gestureUserOffer, appVars, countVars, anchor, pointer, moved,
                   staleTimeout, expandCount, clockVars, ownerLast, data, tickBase,
                   tooltipRef, bodyNodes, inputVars, svg, hasAnimatedContours,
                   staleFade, densityRan, sizeSkips, markTransitions, probeVars>>

NextMedian == \E offers \in SUBSET MedianPool : MeasureMedians(offers)

\* starting from the medians of the loaded offers
SpecMedian == Init /\ [][NextMedian]_vars

(***************************************************************************)
(* The coordinate mapper on its own, applied to domains, plot sizes and    *)
(* data values from small sets                                             *)
(***************************************************************************)
\* domains: the unit domain of no offers, the domain of the loaded offers, a
\* narrow domain off the origin, a degenerate domain
MapperDomains ==
    {[x |-> <<R(0), R(1)>>, y |-> <<R(0), R(5)>>],
     loadedDomain,
     [x |-> <<<<1, 10>>, <<3, 10>>>>, y |-> <<R(3), R(4)>>],
     [x |-> <<R(5), R(5)>>, y |-> <<R(5), R(5)>>]}

\* plot sizes: the size of the first drawing and a narrow, tall plot
MapperSizes ==
    {[width |-> PlotWidth, height |-> PlotHeight],
     [width |-> 3, height |-> PlotHeight + PlotWidth]}

\* principals and rates: inside and outside the domains
MapperValues == {<<1, 5>>, R(4), R(50)}

\* the scales of getChartGeometry (ScatterPlot.tsx:303-315) applied to the
\* principals p1, p2 and the rates r1, r2 and to what lies halfway between
\* them, and the inverses of handleDrag (ScatterPlot.tsx:210-214) applied
\* to the results
MeasureMapper(dom, size, p1, p2, r1, r2) ==
    /\ LET w == R(size.width)
           h == R(size.height)
           x1 == xScale(dom, w, p1)
           x2 == xScale(dom, w, p2)
           y1 == yScale(dom, h, r1)
           y2 == yScale(dom, h, r2)
       IN mapperCall' =
             Some([domain |-> dom, width |-> w, height |-> h,
                   loans |-> <<p1, p2>>, rates |-> <<r1, r2>>,
                   xs |-> <<x1, x2>>, ys |-> <<y1, y2>>,
                   xHalfway |-> xScale(dom, w, RDiv(RAdd(p1, p2), R(2))),
                   yHalfway |-> yScale(dom, h, RDiv(RAdd(r1, r2), R(2))),
                   xEnds |-> <<xScale(dom, w, dom.x[1]), xScale(dom, w, dom.x[2])>>,
                   yEnds |-> <<yScale(dom, h, dom.y[1]), yScale(dom, h, dom.y[2])>>,
                   backLoans |-> <<xInvert(dom, w, x1), xInvert(dom, w, x2)>>,
                   backRates |-> <<yInvert(dom, h, y1), yInvert(dom, h, y2)>>])
    /\ UNCHANGED <<chartMounted, appMounted, isDraggingRef, lastDataPosRef,
                   lastDomainRef, throttleTimeoutRef, dragTooltipRef, userPoint,
                   gestureUserOffer, appVars, countVars, anchor, pointer, moved,
                   staleTimeout, expandCount, clockVars, ownerLast, data, tickBase,
                   tooltipRef, bodyNodes, inputVars, svgVars, densityRan,
                   markTransitions, markNodes, ageCall, colourCall, ownerInit,
                   timers>>

NextMapper ==
    \E dom \in MapperDomains : \E size \in MapperSizes :
    \E p1, p2, r1, r2 \in MapperValues : MeasureMapper(dom, size, p1, p2, r1, r2)

SpecMapper == Init /\ [][NextMapper]_vars

(***************************************************************************)
(* The data join of the market marks on its own (ScatterPlot.tsx:520-589), *)
(* applied to offer lists from a small pool.  A mark node is a record      *)
(* [node, datum]: the identity of the DOM element and the offer bound to   *)
(* it; markNodes = [nodes, created, data] holds the nodes in the order of  *)
(* the data, the number of nodes created so far and the list last joined   *)
(***************************************************************************)
\* number of offers in a list
MaxList == 2
\* number of mark nodes created
MaxNodes == 5

\* offers with an id, an updated record of offer a, and offers without an
\* id (the empty string), two of them alike in every field of the key
JoinPool ==
    {[id |-> "a", collection |-> "x", loanAmount |-> R(10), interestRate |-> R(5),
      duration |-> 30, lender |-> "p"],
     [id |-> "a", collection |-> "x", loanAmount |-> R(12), interestRate |-> R(5),
      duration |-> 30, lender |-> "p"],
     [id |-> "b", collection |-> "x", loanAmount |-> R(20), interestRate |-> R(10),
      duration |-> 30, lender |-> "p"],
     [id |-> "", collection |-> "x", loanAmount |-> R(10), interestRate |-> R(5),
      duration |-> 30, lender |-> "p"],
     [id |-> "", collection |-> "x", loanAmount |-> R(10), interestRate |-> R(5),
      duration |-> 30, lender |-> "q"],
     [id |-> "", collection |-> "x", loanAmount |-> R(20), interestRate |-> R(10),
      duration |-> 7, lender |-> "q"]}

\* the offer lists: every list of at most MaxList offers of the pool
JoinLists == UNION {[1..n -> JoinPool] : n \in 0..MaxList}

\* the key function of the join (ScatterPlot.tsx:521):
\* d.id || `${d.collection}-${d.loanAmount}-${d.interestRate}-${d.duration}`
keyOf(d) ==
    IF d.id # "" THEN <<d.id>>
    ELSE <<d.collection, d.loanAmount, d.interestRate, d.duration>>

\* selection.data(data, key) of d3: of the nodes with one key the first is
\* kept for matching, the others leave; a datum takes the node kept for its
\* key if no earlier datum took it (update), else it enters; the nodes no
\* datum took leave.  The result has, for each datum in order, the node
\* that was updated or 0 for a datum that enters
joinUpdate(nodes, list) ==
    LET kept(k) == {i \in 1..Len(nodes) :
                      /\ keyOf(nodes[i].datum) = k
                      /\ \A h \in 1..(i - 1) : keyOf(nodes[h].datum) # k}
        taken(j) == \E h \in 1..(j - 1) : keyOf(list[h]) = keyOf(list[j])
    IN [j \in 1..Len(list) |->
          IF kept(keyOf(list[j])) = {} \/ taken(j) THEN 0
          ELSE nodes[CHOOSE i \in kept(keyOf(list[j])) : TRUE].node]

\* the nodes after the join has settled (ScatterPlot.tsx:524-589): the
\* nodes that leave are removed, a node is appended for each datum that
\* enters, every node is bound to its datum
joinSettled(marks, list) ==
    LET update == joinUpdate(marks.nodes, list)
        entersBefore(j) == Cardinality({h \in 1..(j - 1) : update[h] = 0})
    IN [nodes |-> [j \in 1..Len(list) |->
                     [node |-> IF update[j] = 0
                               THEN marks.created + entersBefore(j) + 1
                               ELSE update[j],
                      datum |-> list[j]]],
        created |-> marks.created + entersBefore(Len(list) + 1),
        data |-> list]

\* a render pass of the chart with the offer list given
JoinRender(list) ==
    /\ joinSettled(markNodes, list).created <= MaxNodes
    /\ markNodes' = joinSettled(markNodes, list)
    /\ UNCHANGED <<chartMounted, appMounted, isDraggingRef, lastDataPosRef,
                   lastDomainRef, throttleTimeoutRef, dragTooltipRef, userPoint,
                   gestureUserOffer, appVars, countVars, anchor, pointer, moved,
                   staleTimeout, expandCount, clockVars, ownerLast, data, tickBase,
                   tooltipRef, bodyNodes, inputVars, svgVars, densityRan,
                   markTransitions, mapperCall, ageCall, colourCall, ownerInit,
                   timers>>

NextJoin == \E list \in JoinLists : JoinRender(list)

SpecJoin == Init /\ [][NextJoin]_vars

(***************************************************************************)
(* The owner's duration filter and initialisation effect on their own      *)
(* (App.tsx:107-118, 147-157).  ownerInit holds what they read and write:  *)
(* loading, currencyOffers, userOffer, the memoised filteredOffers, whether *)
(* currencyOffers is a new array since the memo was computed, the values   *)
(* the memo and the effect last compared their dependencies with, whether  *)
(* a render is pending, and the number of times the effect has set the     *)
(* user offer since the last event.  React runs the pending render and its *)
(* effects before it handles the next event.                               *)
(***************************************************************************)
MaxOffers == 2
MaxInitRuns == 4

\* offers of two durations, and one without a duration and without an id
InitPool ==
    {[id |-> "a", loanAmount |-> R(10), interestRate |-> R(5), duration |-> Some(7)],
     [id |-> "b", loanAmount |-> R(20), interestRate |-> R(10), duration |-> Some(30)],
     [id |-> "", loanAmount |-> R(5), interestRate |-> R(20), duration |-> Null]}

InitLists == UNION {[1..n -> InitPool] : n \in 0..MaxOffers}

\* the choices of the duration dropdown: all, and two durations
Durations == {Null, Some(30), Some(90)}

\* the collections of the collection dropdown
Collections == {[name |-> "A", contract_address |-> "0xa"]}

\* an event sets state of the owner: a render is pending
ownerEvent(next) ==
    /\ ~ownerInit.pending
    /\ ownerInit' = [next EXCEPT !.pending = TRUE, !.runs = 0]
    /\ UNCHANGED <<liveVars, mapperCall, markNodes, ageCall, colourCall, timers>>

\* the offers of the selected currency arrive (useLoanOffers.ts:17-64)
OffersArrive(list) ==
    ownerEvent([ownerInit EXCEPT !.loading = FALSE, !.currencyOffers = list,
                                 !.offersNew = TRUE])

\* the duration dropdown (InputControls.tsx:78-87)
DurationSelected(d) ==
    ownerEvent([ownerInit EXCEPT !.userOffer.duration = d])

\* the collection dropdown (InputControls.tsx:57-66)
CollectionSelected(c) ==
    ownerEvent([ownerInit EXCEPT !.userOffer.collection = Some(c.name),
                                 !.userOffer.collectionAddress =
                                     Some(c.contract_address)])

\* the pending render of the owner and its effects: the memo recomputes
\* filteredOffers when one of its dependencies changed (App.tsx:107-118), and
\* the initialisation effect runs when one of its dependencies changed
\* (App.tsx:148-157); the user offer it sets asks for the next render
OwnerRender ==
    LET o == ownerInit
        deps == <<o.userOffer.duration, o.userOffer.collectionAddress>>
        recompute == o.offersNew \/ o.memoDeps # deps
        filtered == IF recompute
                    THEN filteredOffersOf(o.currencyOffers, o.userOffer.duration)
                    ELSE o.filteredOffers
        effectDeps == <<o.loading, o.userOffer.collectionAddress>>
        effectRuns == recompute \/ o.effectDeps # effectDeps
        sets == effectRuns /\ ~o.loading /\ Len(filtered) > 0
    IN /\ o.pending
       /\ sets => o.runs < MaxInitRuns
       /\ ownerInit' = [o EXCEPT !.filteredOffers = filtered,
                                 !.offersNew = FALSE,
                                 !.memoDeps = deps,
                                 !.effectDeps = effectDeps,
                                 !.userOffer = IF sets
                                               THEN initialiseUserOffer(@, filtered)
                                               ELSE @,
                                 !.pending = sets,
                                 !.runs = IF sets THEN @ + 1 ELSE @]
       /\ UNCHANGED <<liveVars, mapperCall, markNodes, ageCall, colourCall, timers>>

NextInit ==
    \/ \E list \in InitLists : OffersArrive(list)
    \/ \E d \in Durations : DurationSelected(d)
    \/ \E c \in Collections : CollectionSelected(c)
    \/ OwnerRender

\* the pending render is not put off for ever
SpecInit == Init /\ [][NextInit]_vars /\ WF_vars(OwnerRender)

(***************************************************************************)
(* formatAge on its own (ScatterPlot.tsx:152-167), applied to timestamps   *)
(* around the changes of unit.  Times are in milliseconds; the text is the *)
(* sequence of its parts: the number, the unit, the plural suffix, " ago". *)
(***************************************************************************)
MinuteMs == 60000
HourMs == 3600000
DayMs == 86400000
MaxUnits == 12

\* Date.now()
Now == (MaxUnits + 2) * DayMs

\* formatAge with the numbers rounded to the nearest
formatAgeRounded(now, timestamp) ==
    IF timestamp = Null \/ Val(timestamp) = 0 THEN <<"N/A">>
    ELSE LET diffMs == now - Val(timestamp)
             diffMinutes == (diffMs + MinuteMs \div 2) \div MinuteMs
             diffHours == (diffMs + HourMs \div 2) \div HourMs
             diffDays == (diffMs + DayMs \div 2) \div DayMs
         IN IF diffDays >= 1
            THEN <<diffDays, " day", IF diffDays = 1 THEN "" ELSE "s", " ago">>
            ELSE IF diffHours >= 1
            THEN <<diffHours, " hour", IF diffHours = 1 THEN "" ELSE "s", " ago">>
            ELSE <<diffMinutes, " minute", IF diffMinutes = 1 THEN "" ELSE "s", " ago">>

\* formatAge(timestamp) at the time now; timestamp Null (undefined) or
\* Some(ms); Math.floor is \div
formatAge(now, timestamp) ==
    IF timestamp = Null \/ Val(timestamp) = 0 THEN <<"N/A">>
    ELSE LET diffMs == now - Val(timestamp)
             diffMinutes == diffMs \div MinuteMs
             diffHours == diffMs \div HourMs
             diffDays == diffMs \div DayMs
         IN IF diffDays >= 1
            THEN <<diffDays, " day", IF diffDays = 1 THEN "" ELSE "s", " ago">>
            ELSE IF diffHours >= 1
            THEN <<diffHours, " hour", IF diffHours = 1 THEN "" ELSE "s", " ago">>
            ELSE <<diffMinutes, " minute", IF diffMinutes = 1 THEN "" ELSE "s", " ago">>

\* ages: up to MaxUnits minutes, hours and days, one millisecond less and
\* one more
Ages ==
    {a \in {k * u + e : k \in 0..MaxUnits, u \in {MinuteMs, HourMs, DayMs},
                        e \in {-1, 0, 1}} : a >= 0}

\* timestamps: none, the zero timestamp, and the timestamps of these ages
Timestamps == {Null, Some(0)} \cup {Some(Now - a) : a \in Ages}

\* the tooltip formats the age of an offer (ScatterPlot.tsx:556)
MeasureAge(timestamp) ==
    /\ ageCall' = Some([now |-> Now, timestamp |-> timestamp,
                        text |-> formatAge(Now, timestamp)])
    /\ UNCHANGED <<liveVars, mapperCall, markNodes, colourCall, ownerInit, timers>>

NextAge == \E timestamp \in Timestamps : MeasureAge(timestamp)

SpecAge == Init /\ [][NextAge]_vars

(***************************************************************************)
(* The colour scale of the marks on its own (ScatterPlot.tsx:512-518,      *)
(* 539-541, 576-579), applied to short lists of offer timestamps.  The     *)
(* colour of a mark is the interpolation between the two colours of the    *)
(* range at the parameter the scale computes.                              *)
(***************************************************************************)
MaxMarks == 3

\* timestamps of offers: none (undefined), or a time
MarkTimes == {Null, Some(1), Some(2), Some(5), Some(9)}

TimeLists == UNION {[1..n -> MarkTimes] : n \in 1..MaxMarks}

\* d.timestamp ?? 0
timestampOrZero(timestamp) == IF timestamp = Null THEN 0 ELSE Val(timestamp)

\* what d3.scaleLinear gives for a domain of no extent: 0 (d3-scale 1) or
\* one half (d3-scale 2 and later); the repository does not pin the version
DegenerateParameters == {R(0), <<1, 2>>}

\* timeScale (ScatterPlot.tsx:512-517) before the interpolation of the
\* colours: the parameter for the timestamp t of a mark, timestamps being
\* those of the offers
timeScale(timestamps, degenerate, t) ==
    LET times == {timestampOrZero(timestamps[i]) : i \in DOMAIN timestamps}
        minTimestamp == CHOOSE a \in times : \A b \in times : a <= b
        maxTimestamp == CHOOSE a \in times : \A b \in times : b <= a
    IN IF minTimestamp = maxTimestamp THEN degenerate
       ELSE RDiv(R(timestampOrZero(t) - minTimestamp),
                 R(maxTimestamp - minTimestamp))

\* the main effect colours the marks of the offers with these timestamps
MeasureColours(timestamps) ==
    /\ \E degenerate \in DegenerateParameters :
          colourCall' = Some([timestamps |-> timestamps,
                             parameters |-> [i \in DOMAIN timestamps |->
                                 timeScale(timestamps, degenerate, timestamps[i])]])
    /\ UNCHANGED <<liveVars, mapperCall, markNodes, ageCall, ownerInit, timers>>

NextColours == \E timestamps \in TimeLists : MeasureColours(timestamps)

SpecColours == Init /\ [][NextColours]_vars

(***************************************************************************)
(* The two timers on their own (ScatterPlot.tsx:169-176, App.tsx:218-228,  *)
(* 279-283).  timers holds the two handles, the timeouts and the intervals *)
(* the runtime has armed and not yet fired or cleared, and the number of   *)
(* timers made so far, which names the next one.                           *)
(***************************************************************************)
MaxTimers == 14

\* startExpandInterval without the test of the handle
startExpandIntervalAlways(t) ==
    [t EXCEPT !.made = @ + 1,
              !.intervals = @ \cup {t.made + 1},
              !.expandIntervalRef = Some(t.made + 1)]

\* startExpandInterval (App.tsx:218-221) on the timers t
startExpandIntervalOn(t) ==
    IF t.expandIntervalRef # Null THEN t
    ELSE [t EXCEPT !.made = @ + 1,
                   !.intervals = @ \cup {t.made + 1},
                   !.expandIntervalRef = Some(t.made + 1)]

\* stopExpandInterval (App.tsx:223-228) on the timers t
stopExpandIntervalOn(t) ==
    IF t.expandIntervalRef # Null
    THEN [t EXCEPT !.intervals = @ \ {Val(t.expandIntervalRef)},
                   !.expandIntervalRef = Null]
    ELSE t

\* throttledExpand (ScatterPlot.tsx:169-176) on the timers t
throttledExpandOn(t) ==
    IF t.throttleTimeoutRef # Null THEN t
    ELSE [t EXCEPT !.made = @ + 1,
                   !.timeouts = @ \cup {t.made + 1},
                   !.throttleTimeoutRef = Some(t.made + 1)]

\* what changes timers and nothing else
timersBecome(next) ==
    /\ next.made <= MaxTimers
    /\ timers' = next
    /\ UNCHANGED <<liveVars, mapperCall, markNodes, ageCall, colourCall, ownerInit>>

\* a pointer-move of a drag: handleDrag calls throttledExpand
\* (ScatterPlot.tsx:240-250)
PointerMove == timersBecome(throttledExpandOn(timers))

\* the timeout id fires (ScatterPlot.tsx:172-175): the live update reaches
\* handleUserOfferDrag, which starts the interval (App.tsx:232-241), and the
\* handle is cleared
TimeoutFires(id) ==
    /\ id \in timers.timeouts
    /\ timersBecome([startExpandIntervalOn([timers EXCEPT !.timeouts = @ \ {id}])
                        EXCEPT !.throttleTimeoutRef = Null])

\* the committed update of a drag end reaches handleUserOfferDrag, which
\* stops the interval (App.tsx:242-251), as the cleanup of the owner does
\* (App.tsx:279-283)
CommittedUpdate == timersBecome(stopExpandIntervalOn(timers))

NextTimers ==
    \/ PointerMove
    \/ \E id \in 1..MaxTimers : TimeoutFires(id)
    \/ CommittedUpdate

SpecTimers == Init /\ [][NextTimers]_vars

(***************************************************************************)
(* The inputs of the chart besides the drag: the size of its container,    *)
(* the overlay toggle and the currency switch                              *)
(***************************************************************************)
\* the container size of the first drawing
measuredSize ==
    [width |-> PlotWidth + MarginLeft + MarginRight,
     height |-> PlotHeight + MarginTop + MarginBottom]

\* container sizes the ResizeObserver reports: none, the size of the first
\* drawing, a size that leaves the plot a width and no height
ChartSizes ==
    {[width |-> 0, height |-> 0],
     measuredSize,
     [width |-> PlotWidth + MarginLeft + MarginRight,
      height |-> MarginTop + MarginBottom]}

Currencies == {"WETH", "USDC"}

\* the filter of useLoanOffers (useLoanOffers.ts:62): the loaded offers are
\* all WETH offers
filterByCurrency(currency) == IF currency = "WETH" THEN Offers ELSE {}

\* getMedianEthUsdcRate(allLoanOffers): the loaded offers carry no USD value,
\* so there is no WETH offer to take a rate from and the result is null
getMedianEthUsdcRate == Null

\* handleCurrencyChange (App.tsx:256-276): the user offer it sets
handleCurrencyChange(offer, from, to) ==
    LET rate == getMedianEthUsdcRate
        newAmount == IF rate = Null THEN offer.loanAmount
                     ELSE IF from = "WETH" /\ to = "USDC"
                     THEN RMul(offer.loanAmount, Val(rate))
                     ELSE IF from = "USDC" /\ to = "WETH"
                     THEN RDiv(offer.loanAmount, Val(rate))
                     ELSE offer.loanAmount
    IN [offer EXCEPT !.loanAmount = newAmount]

\* the filter effect of useLoanOffers has not run for the selected currency
filterPending == data # filterByCurrency(selectedCurrency)

\* a render pass of the chart that follows the pass with the result prev, if
\* a state change asks for one
passIf(happens, prev, old, new, offerSet, hasTooltip) ==
    IF happens THEN chartEffects(prev, old, new, isDraggingRef, lastDataPosRef,
                                 offerSet, hasTooltip)
    ELSE [prev EXCEPT !.ran = FALSE, !.drew = FALSE, !.transitions = {}]

\* the chart after the render passes of one step, the last of them out:
\* started are the transitions they started on market marks, drawn is Null
\* or the user offer and the domain of the last pass that drew the user point
Rendered(out, ran, started, drawn) ==
    /\ svg' = out.svg
    /\ hasAnimatedContours' = out.hasAnimatedContours
    /\ staleFade' = out.staleFade
    /\ medianCall' = out.medianCall
    /\ sizeSkips' = out.sizeSkips
    /\ densityRan' = ran
    /\ markTransitions' = started
    /\ UNCHANGED probeVars
    /\ lastDomainRef' = domain'
    /\ userPoint' = IF out.svg = Null THEN Null
                    ELSE IF drawn # Null
                    THEN drawUserPoint(isDraggingRef, lastDataPosRef, Val(drawn).offer,
                                       Val(drawn).domain)
                    ELSE userPoint

\* what the view steps leave alone: the drag and its history
dragVars == <<chartMounted, appMounted, isDraggingRef, lastDataPosRef,
              throttleTimeoutRef, dragTooltipRef, gestureUserOffer,
              dragActiveRef, dragPosRef, expandIntervalRef, countVars, anchor,
              pointer, moved, staleTimeout, expandCount, clockVars, ownerLast,
              tickBase, tooltipRef, bodyNodes>>

\* the ResizeObserver callback (ScatterPlot.tsx:184-191) with a new size,
\* and the render pass of the chart
Resize(size) ==
    /\ chartMounted
    /\ ~filterPending
    /\ size # chartSize
    /\ chartSize' = size
    /\ UNCHANGED <<dragVars, domain, userOffer, data, showContours, selectedCurrency>>
    /\ \E out \in {chartEffects(svgState, viewInputs, viewInputs', isDraggingRef,
                                lastDataPosRef, FALSE, tooltipRef # Null)} :
          Rendered(out, out.ran, out.transitions,
                   IF out.drew THEN Some([offer |-> userOffer, domain |-> domain])
                   ELSE Null)

\* the overlay switch (App.tsx:287, onShowContoursChange) and the render pass
ToggleContours ==
    /\ chartMounted
    /\ ~filterPending
    /\ showContours' = ~showContours
    /\ UNCHANGED <<dragVars, domain, userOffer, data, chartSize, selectedCurrency>>
    /\ \E out \in {chartEffects(svgState, viewInputs, viewInputs', isDraggingRef,
                                lastDataPosRef, FALSE, tooltipRef # Null)} :
          Rendered(out, out.ran, out.transitions,
                   IF out.drew THEN Some([offer |-> userOffer, domain |-> domain])
                   ELSE Null)

\* the currency switch (ScatterPlot.tsx:853-855): handleCurrencyChange, the
\* render pass with the new currency and the offers not yet filtered, the
\* domain recompute effect and the render pass it may ask for
CurrencyChange(currency) ==
    /\ chartMounted
    /\ ~filterPending
    /\ currency # selectedCurrency
    /\ selectedCurrency' = currency
    /\ userOffer' = handleCurrencyChange(userOffer, selectedCurrency, currency)
    /\ domain' = domainEffect(data, userOffer', domain)
    /\ UNCHANGED <<dragVars, data, chartSize, showContours>>
    /\ LET in0 == viewInputs
           in1 == [in0 EXCEPT !.selectedCurrency = currency]
           hasTooltip == tooltipRef # Null
       IN \E a \in {chartEffects(svgState, in0, in1, isDraggingRef, lastDataPosRef,
                                  TRUE, hasTooltip)} :
          \E b \in {passIf(domain' # domain, a, in1, viewInputs', FALSE, hasTooltip)} :
             Rendered(b, a.ran \/ b.ran, a.transitions \cup b.transitions,
                      IF b.drew THEN Some([offer |-> userOffer', domain |-> domain'])
                      ELSE IF a.drew THEN Some([offer |-> userOffer', domain |-> domain])
                      ELSE Null)

\* the filter effect of useLoanOffers (useLoanOffers.ts:61-64) after a
\* currency switch: the render pass with the filtered offers; then the
\* owner's effects, the domain recompute (App.tsx:89-102) and the user offer
\* set to the medians (App.tsx:148-157), and their render pass; then the
\* domain recompute for the new user offer and its render pass
filterOffersEffect ==
    /\ chartMounted
    /\ filterPending
    /\ data' = filterByCurrency(selectedCurrency)
    /\ userOffer' = IF data' # {} THEN initializeWithMedianValues(data') ELSE userOffer
    /\ domain' = domainEffect(data', userOffer', domainEffect(data', userOffer, domain))
    /\ UNCHANGED <<dragVars, chartSize, showContours, selectedCurrency>>
    /\ LET in0 == viewInputs
           inA == [in0 EXCEPT !.data = data']
           domB == domainEffect(data', userOffer, domain)
           inB == [inA EXCEPT !.domain = domB]
           hasTooltip == tooltipRef # Null
       IN \E a \in {chartEffects(svgState, in0, inA, isDraggingRef, lastDataPosRef,
                                  FALSE, hasTooltip)} :
          \E b \in {passIf(data' # {} \/ domB # domain, a, inA, inB, data' # {},
                           hasTooltip)} :
          \E c \in {passIf(domain' # domB, b, inB, viewInputs', FALSE, hasTooltip)} :
             Rendered(c, a.ran \/ b.ran \/ c.ran,
                      a.transitions \cup b.transitions \cup c.transitions,
                      IF c.drew THEN Some([offer |-> userOffer', domain |-> domain'])
                      ELSE IF b.drew THEN Some([offer |-> userOffer', domain |-> domB])
                      ELSE IF a.drew THEN Some([offer |-> userOffer, domain |-> domain])
                      ELSE Null)

\* the fade-in transition of the contours ends (ScatterPlot.tsx:361-370)
FadeEnd ==
    /\ fadingOf(svg)
    /\ svg' = [svg EXCEPT !.contours = Some([opacity |-> 1, fading |-> FALSE])]
    /\ hasAnimatedContours' = TRUE
    /\ densityRan' = FALSE
    /\ markTransitions' = {}
    /\ UNCHANGED probeVars
    /\ UNCHANGED <<dragVars, appVars, lastDomainRef, userPoint, data, inputVars,
                   staleFade, medianCall, sizeSkips>>

\* the fade-in transition of contours that were removed meanwhile ends: its
\* 'end' callback still runs
StaleFadeEnd ==
    /\ staleFade
    /\ staleFade' = FALSE
    /\ hasAnimatedContours' = TRUE
    /\ densityRan' = FALSE
    /\ markTransitions' = {}
    /\ UNCHANGED probeVars
    /\ UNCHANGED <<dragVars, appVars, lastDomainRef, userPoint, data, inputVars,
                   svg, medianCall, sizeSkips>>

NextView ==
    \/ \E size \in ChartSizes : Resize(size)
    \/ ToggleContours
    \/ \E currency \in Currencies : CurrencyChange(currency)
    \/ filterOffersEffect
    \/ FadeEnd
    \/ StaleFadeEnd

SpecView == Init /\ [][NextView]_vars

\* the chart and its owner while mounted, with the fade-in transitions
NextFade ==
    \/ Next
    \/ FadeEnd
    \/ StaleFadeEnd

SpecFade == Init /\ [][NextFade]_vars

(***************************************************************************)
(* InputControls.tsx: the form fields of the principal and of the rate.    *)
(* A text is a sequence of characters                                      *)
(***************************************************************************)
DigitChars == <<"0", "1", "2", "3", "4", "5", "6", "7", "8", "9">>
Digits == {DigitChars[i] : i \in 1..10}
digitValue(c) == (CHOOSE i \in 1..10 : DigitChars[i] = c) - 1

\* value.replace(/[^0-9.]/g, '') (InputControls.tsx:70)
stripNonNumeric(text) == SelectSeq(text, LAMBDA c : c \in Digits \cup {"."})

\* the number a sequence of digits denotes; none denote 0
RECURSIVE digitsValue(_)
digitsValue(str) ==
    IF str = <<>> THEN 0
    ELSE 10 * digitsValue(SubSeq(str, 1, Len(str) - 1)) + digitValue(str[Len(str)])

RECURSIVE Pow10(_)
Pow10(n) == IF n = 0 THEN 1 ELSE 10 * Pow10(n - 1)

\* Number(str) for a string of digits and dots: 0 for the empty string, NaN
\* for more than one dot or no digit, else the decimal number
toNumber(str) ==
    LET dots == {i \in 1..Len(str) : str[i] = "."}
    IN IF str = <<>> THEN R(0)
       ELSE IF Cardinality(dots) > 1 \/ Cardinality(dots) = Len(str) THEN NaN
       ELSE IF dots = {} THEN R(digitsValue(str))
       ELSE LET dot == CHOOSE i \in dots : TRUE
                whole == SubSeq(str, 1, dot - 1)
                fraction == SubSeq(str, dot + 1, Len(str))
            IN Norm(digitsValue(whole) * Pow10(Len(fraction)) + digitsValue(fraction),
                    Pow10(Len(fraction)))

\* updateUserOffer of useUserOffer (useUserOffer.ts:18-23) with one field
mergeUserOffer(prev, field, value) == [prev EXCEPT ![field] = value]

\* handleLoanAmountChange (InputControls.tsx:68-76): the user offer it sets
handleLoanAmountChange(offer, value) ==
    LET numValue == toNumber(stripNonNumeric(value))
    IN mergeUserOffer(offer, "loanAmount", IF numValue # NaN THEN numValue ELSE Null)

\* onChange of the interest rate field (InputControls.tsx:173-181)
handleInterestRateChange(offer, value) ==
    LET numValue == toNumber(stripNonNumeric(value))
    IN mergeUserOffer(offer, "interestRate", IF numValue # NaN THEN numValue ELSE Null)

\* texts typed into a field: nothing, numbers, a number with a trailing dot,
\* a lone dot, two dots, letters, a minus sign
FormTexts ==
    {<<>>, <<"5">>, <<"2", "5">>, <<"1", ".", "5">>, <<"3", ".">>, <<".", "5">>,
     <<".">>, <<"1", ".", "2", ".", "3">>, <<"a", "b", "c">>, <<"-", "4">>,
     <<"1", "2", "e", "1">>}

\* the render passes after the form set the user offer: the pass with the
\* new user offer, the domain recompute effect and the pass it may ask for
formRender ==
    LET in0 == viewInputs
        hasTooltip == tooltipRef # Null
    IN \E a \in {chartEffects(svgState, in0, in0, isDraggingRef, lastDataPosRef,
                               TRUE, hasTooltip)} :
       \E b \in {passIf(domain' # domain, a, in0, viewInputs', FALSE, hasTooltip)} :
          Rendered(b, a.ran \/ b.ran, a.transitions \cup b.transitions,
                   IF b.drew THEN Some([offer |-> userOffer', domain |-> domain'])
                   ELSE IF a.drew THEN Some([offer |-> userOffer', domain |-> domain])
                   ELSE Null)

\* the principal field changes to the text value
LoanAmountEdit(value) ==
    /\ appMounted
    /\ ~filterPending
    /\ userOffer' = handleLoanAmountChange(userOffer, value)
    /\ domain' = domainEffect(data, userOffer', domain)
    /\ UNCHANGED <<dragVars, data, inputVars>>
    /\ formRender

\* the rate field changes to the text value
InterestRateEdit(value) ==
    /\ appMounted
    /\ ~filterPending
    /\ userOffer' = handleInterestRateChange(userOffer, value)
    /\ domain' = domainEffect(data, userOffer', domain)
    /\ UNCHANGED <<dragVars, data, inputVars>>
    /\ formRender

\* the form and the currency switch
NextForm ==
    \/ \E value \in FormTexts : LoanAmountEdit(value)
    \/ \E value \in FormTexts : InterestRateEdit(value)
    \/ \E currency \in Currencies : CurrencyChange(currency)
    \/ filterOffersEffect

SpecForm == Init /\ [][NextForm]_vars

\* the pointer positions of a gesture that stays inside the plot: the middle
\* and a horizontal step from it
InteriorPointers ==
    {<<PlotWidth \div 2, PlotHeight \div 2>>,
     <<PlotWidth \div 2 + 2, PlotHeight \div 2>>}

\* the chart and its owner with the user point pressed once more after the
\* gestures of Next
NextAgain ==
    \/ \E p \in InteriorPointers : dragStarts(p, MaxDrags + 1)
    \/ \E p \in InteriorPointers : handleDrag(p)
    \/ DragEnd
    \/ ThrottleFire
    \/ IntervalTick
    \/ Tick

SpecAgain == Init /\ [][NextAgain]_vars

\* the drag with the chart's controls operated meanwhile: the overlay
\* switch and the currency switch, by keyboard or by a second touch.  The
\* filter effect runs right after the render of a currency switch, before
\* any other event is handled
\* the pointer position of these runs: the middle of the plot
LivePointers == {<<PlotWidth \div 2, PlotHeight \div 2>>}

NextLive ==
    \/ \E p \in LivePointers : ~filterPending /\ DragStart(p)
    \/ \E p \in LivePointers : ~filterPending /\ handleDrag(p)
    \/ ~filterPending /\ DragEnd
    \/ ~filterPending /\ ThrottleFire
    \/ ~filterPending /\ IntervalTick
    \/ ~filterPending /\ Tick
    \/ ToggleContours
    \/ \E currency \in Currencies : CurrencyChange(currency)
    \/ filterOffersEffect

SpecLive == Init /\ [][NextLive]_vars

(***************************************************************************)
(* Properties                                                              *)
(***************************************************************************)
isLive(n) == n # Null /\ Val(n).update.dragging
isCommit(n) == n # Null /\ ~Val(n).update.dragging

\* C1: a live update is delivered to the owner only while the drag session
\* that produced it is active.
LiveOnlyWhileDragging ==
    isLive(ownerLast) => Val(ownerLast).active /\ ~Val(ownerLast).stale

\* C2: the expansion interval is armed only while a drag session is active.
IntervalOnlyWhileDragging ==
    expandIntervalRef # Null => isDraggingRef

\* C3: every drag-end delivers exactly one committed update, in the same
\* step, carrying only the last data position and no dragging flag, whether
\* or not a throttle timeout is pending; nothing else delivers a commit.
DragEndCommitsOnce ==
    [][/\ (isDraggingRef /\ ~isDraggingRef') =>
            /\ commits' = commits + 1
            /\ isCommit(ownerLast')
            /\ Val(ownerLast').update =
                 committedUpdate(
                    IF lastDataPosRef # Null THEN Val(lastDataPosRef).dataX
                    ELSE gestureUserOffer.loanAmount,
                    IF lastDataPosRef # Null THEN Val(lastDataPosRef).dataY
                    ELSE gestureUserOffer.interestRate)
            /\ ~dragActiveRef' /\ dragPosRef' = Null /\ expandIntervalRef' = Null
            /\ throttleTimeoutRef' = throttleTimeoutRef
       /\ commits' # commits => (isDraggingRef /\ ~isDraggingRef')]_vars

\* C3 witness: a drag has ended while a throttle timeout was pending and the
\* commit was delivered
CommitWithPendingThrottle ==
    /\ commits > 0
    /\ staleTimeout
    /\ throttleTimeoutRef # Null
    /\ isCommit(ownerLast)

\* C4: two live updates are never less than one throttle delay apart, so the
\* pointer-moves of one throttle interval produce at most one live update.
LiveUpdatesThrottled ==
    liveGap >= ThrottleDelay

\* C4 witness: a second live update has been delivered exactly one throttle
\* delay after the first, and more than one pointer-move fell in its window
SecondLiveAfterDelay ==
    /\ liveGap = ThrottleDelay
    /\ isLive(ownerLast)
    /\ ~Val(ownerLast).latest

\* C5: after teardown of the chart or of its owner no timer is left armed.
TimersReleasedAtTeardown ==
    /\ ~chartMounted => throttleTimeoutRef = Null
    /\ ~appMounted => expandIntervalRef = Null

\* C6: the principal and rate carried by live and committed updates are the
\* unclamped data-space values of the pointer-move they come from.
UpdatesCarryUnclamped ==
    ownerLast # Null /\ Val(ownerLast).made # Null =>
        /\ Val(ownerLast).update.loanAmount = Val(Val(ownerLast).made).rawX
        /\ Val(ownerLast).update.interestRate = Val(Val(ownerLast).made).rawY

\* C7: after every pointer-move the data value is the anchor's data value
\* plus the pixel delta from the anchor converted with the mapper of the
\* domain current at that move; a purely horizontal move keeps the rate.
AnchorRelativeData ==
    isDraggingRef /\ lastDataPosRef # Null /\ anchor # Null /\ moved # Null =>
        LET a == Val(anchor)
            dom == Val(moved).dom
            p == Val(pointer)
            dx == RSub(R(p[1]), R(a.px[1]))
            dy == RSub(R(p[2]), R(a.px[2]))
        IN /\ Val(lastDataPosRef).dataX =
                 RAdd(a.dataX, RSub(xInvert(dom, R(PlotWidth), dx),
                                    xInvert(dom, R(PlotWidth), R(0))))
           /\ Val(lastDataPosRef).dataY =
                 RAdd(a.dataY, RSub(yInvert(dom, R(PlotHeight), dy),
                                    yInvert(dom, R(PlotHeight), R(0))))
           /\ p[2] = a.px[2] => Val(lastDataPosRef).dataY = a.dataY

\* C8: once the live updates of a drag have been delivered, the position the
\* expansion loop checks is the most recent drag position.
ExpansionChecksLatest ==
    isDraggingRef /\ chartMounted /\ moved # Null /\ throttleTimeoutRef = Null =>
        dragPosRef = Some([x |-> R(Val(pointer)[1]), y |-> R(Val(pointer)[2]),
                           width |-> R(PlotWidth), height |-> R(PlotHeight)])

\* C9: after every pointer-move the marker is drawn at, and the drag tooltip
\* shows, the position of that pointer-move.
MarkerFollowsPointer ==
    isDraggingRef /\ chartMounted /\ lastDataPosRef # Null =>
        /\ userPoint = drawUserPoint(TRUE, lastDataPosRef, userOffer, lastDomainRef)
        /\ Val(dragTooltipRef).text =
             Some(<<Val(lastDataPosRef).dataX, Val(lastDataPosRef).dataY>>)

insidePlot(pt) ==
    /\ RLe(R(0), pt.cx) /\ RLe(pt.cx, R(PlotWidth))
    /\ RLe(R(0), pt.cy) /\ RLe(pt.cy, R(PlotHeight))

\* C10: every render pass during a drag session draws the marker inside the
\* plot rectangle.
MarkerInsidePlot ==
    [][isDraggingRef /\ isDraggingRef' /\ chartMounted' /\ userPoint' # userPoint
         => insidePlot(userPoint')]_vars

span(range) == RSub(range[2], range[1])

\* C11: in every state the domain has min <= max on both axes and all four
\* bounds are >= 0.
DomainWellFormed ==
    /\ RLe(domain.x[1], domain.x[2])
    /\ RLe(domain.y[1], domain.y[2])
    /\ RLe(R(0), domain.x[1])
    /\ RLe(R(0), domain.y[1])
    /\ RLe(R(0), domain.x[2])
    /\ RLe(R(0), domain.y[2])

\* C11 witness: expansion calls have moved the domain of a recomputed
\* domain whose lower principal bound is floored at zero
ExpandedFromZero ==
    /\ expandCount > 0
    /\ domain # tickBase
    /\ domain.x[1] = R(0)
    /\ tickBase # getInitialDomain(data, Some(userOffer))

TickMovesTriggeredEdges ==
    [][expandCount' = expandCount + 1 /\ dragActiveRef /\ dragPosRef # Null =>
        LET pos == Val(dragPosRef)
            xStep == RMul(R(PIXEL_INCREMENT), RDiv(span(domain.x), pos.width))
            yStep == RMul(R(PIXEL_INCREMENT), RDiv(span(domain.y), pos.height))
            xNear == RDiv(pos.width, R(EdgeThresholdInv))
            yNear == RDiv(pos.height, R(EdgeThresholdInv))
            atRight == RLe(RSub(pos.width, pos.x), xNear)
            atLeft == RLe(pos.x, xNear)
            atTop == RLe(pos.y, yNear)
            atBottom == RLe(RSub(pos.height, pos.y), yNear)
        IN /\ domain'.x[2] = IF atRight THEN RAdd(domain.x[2], xStep) ELSE domain.x[2]
           /\ domain'.x[1] = IF atLeft THEN RMax(R(0), RSub(domain.x[1], xStep))
                             ELSE domain.x[1]
           /\ domain'.y[2] = IF atTop THEN RAdd(domain.y[2], yStep) ELSE domain.y[2]
           /\ domain'.y[1] = IF atBottom THEN RMax(R(0), RSub(domain.y[1], yStep))
                             ELSE domain.y[1]]_vars

\* C13 witness: one call at a corner has moved a bound of each axis
CornerMovedBothAxes ==
    /\ expandCount = 1
    /\ dragPosRef # Null
    /\ domain.x # tickBase.x
    /\ domain.y # tickBase.y

\* a record has an id
hasId(o) == o.id # ""

\* C14: the medians are those of the records that have an id; a record
\* lacking an id in the list does not affect them.
MediansIgnoreIdless ==
    medianCall # Null =>
        Val(medianCall).result
          = getMarketMedians({o \in Val(medianCall).offers : hasId(o)})

\* C17: while the chart is mounted the document holds exactly one hover
\* tooltip node and one drag tooltip node; after unmount it holds neither.
TooltipNodesOwned ==
    /\ chartMounted => bodyNodes = [tooltip |-> 1, dragTooltip |-> 1]
    /\ ~chartMounted => bodyNodes = [tooltip |-> 0, dragTooltip |-> 0]

\* C17 witness: the chart was unmounted in the middle of a drag, after a
\* live update had re-rendered it
UnmountedMidDrag ==
    /\ ~chartMounted
    /\ isDraggingRef
    /\ isLive(ownerLast)
    /\ Val(ownerLast).chartMounted
    /\ bodyNodes = [tooltip |-> 0, dragTooltip |-> 0]

\* the marks of the chart other than the user point
marks(el) == <<el.points, el.axes, el.medianLines, el.crosshair>>

\* the chart is drawn in full for the inputs in and the user offer
fullyDrawn(el, point, in, offer) ==
    /\ el.points = {o.id : o \in in.data}
    /\ el.axes = Some([domain |-> in.domain,
                       width |-> plotWidth(in.chartSize),
                       height |-> plotHeight(in.chartSize)])
    /\ el.medianLines = Some(getMarketMedians(in.data))
    /\ (el.contours # Null) = in.showContours
    /\ point = drawUserPoint(FALSE, Null, offer, in.domain)

\* C15: while the plot width or height is not positive, a step creates or
\* updates no mark, axis, reference line, crosshair or contour (what is
\* drawn stays as it was, contours may be removed, a new svg element stays
\* empty) and runs no density estimation; the step that brings a positive
\* plot size draws the full chart.
SkipsWithoutPlotSize ==
    [][/\ (chartMounted /\ ~plotPositive(chartSize')) =>
             /\ ~densityRan'
             /\ userPoint' \in {userPoint, Null}
             /\ svg' # Null =>
                   /\ marks(svg') = marks(IF svg = Null THEN emptySvg ELSE svg)
                   /\ svg'.contours = Null
       /\ (chartMounted /\ ~plotPositive(chartSize) /\ plotPositive(chartSize')
           /\ svg' # Null) =>
             fullyDrawn(svg', userPoint', viewInputs', userOffer')]_vars

\* C15 witness: a render pass was skipped for the plot size, and the chart
\* is drawn in full again at a positive plot size
RedrawnAfterSkip ==
    /\ sizeSkips
    /\ plotPositive(chartSize)
    /\ svg # Null
    /\ fullyDrawn(svg, userPoint, viewInputs, userOffer)

\* C16: while the offer list is empty the chart shows no market marks, no
\* reference lines and no contours, also after a render with offers.
EmptyOffersDrawNothing ==
    (chartMounted /\ data = {}) =>
        \/ svg = Null
        \/ /\ svg.points = {}
           /\ svg.medianLines = Null
           /\ svg.contours = Null

\* C16 witness: the offer list became empty after a render that drew the
\* marks and the reference lines of a non-empty list
EmptiedAfterDrawing ==
    /\ chartMounted
    /\ data = {}
    /\ selectedCurrency = "USDC"
    /\ medianCall # Null
    /\ Val(medianCall).offers # {}
    /\ svg = Null

\* C20: after a step that leaves the overlay disabled no contour geometry
\* exists and the step has run no density estimation.
OverlayOffNoContours ==
    [][(chartMounted /\ ~showContours') =>
          /\ ~densityRan'
          /\ svg' # Null => svg'.contours = Null]_vars

\* C20 witness: the overlay is off and the chart is drawn with its marks and
\* without contours, after contours had been drawn and had faded in
OverlayOffChartDrawn ==
    /\ chartMounted
    /\ ~showContours
    /\ svg # Null
    /\ svg.points # {}
    /\ svg.contours = Null
    /\ ~densityRan
    /\ hasAnimatedContours

\* what the density estimation is computed from, and the overlay toggle
contourInputs == <<data, domain, chartSize, showContours>>

\* C19: a step runs the density estimation only if the offer set, the
\* domain, the surface size or the overlay toggle changed in it.
RecomputesOnlyOnChange ==
    [][densityRan' => contourInputs' # contourInputs]_vars

\* C18: once the contours have faded in, a step that recomputes them for the
\* same offer set draws them at full opacity, with no new fade-in.
NoSecondFadeIn ==
    [][(/\ svg # Null
        /\ svg.contours = Some([opacity |-> 1, fading |-> FALSE])
        /\ data' = data
        /\ densityRan')
       => svg'.contours = Some([opacity |-> 1, fading |-> FALSE])]_vars

CommitIsFinal ==
    [][/\ (isDraggingRef /\ ~isDraggingRef' /\ appMounted) =>
             userOffer' = updateUserOffer(userOffer,
                                          Val(ownerLast').update.loanAmount,
                                          Val(ownerLast').update.interestRate)
       /\ (~isDraggingRef /\ ~isDraggingRef' /\ commits > 0) =>
             userOffer' = userOffer]_vars

\* C26: a live update delivered to the owner carries the pixel position and
\* the data position of the most recent pointer-move before the delivery.
LiveCarriesLatestMove ==
    [][(isLive(ownerLast') /\ ownerLast' # ownerLast /\ pointer # Null
        /\ lastDataPosRef # Null) =>
          LET update == Val(ownerLast').update
          IN /\ Val(update.dragX) = R(Val(pointer)[1])
             /\ Val(update.dragY) = R(Val(pointer)[2])
             /\ update.loanAmount = Val(lastDataPosRef).dataX
             /\ update.interestRate = Val(lastDataPosRef).dataY]_vars

\* the domain new reaches at least as far as the domain old on every side
grows(old, new) ==
    /\ RLe(new.x[1], old.x[1]) /\ RLe(old.x[2], new.x[2])
    /\ RLe(new.y[1], old.y[1]) /\ RLe(old.y[2], new.y[2])

\* C25: every step between drag-start and drag-end leaves the domain at
\* least as wide as it was on every side.
DomainOnlyGrowsInDrag ==
    [][(isDraggingRef /\ isDraggingRef') => grows(domain, domain')]_vars

\* the principals and the rates getInitialDomain looks at
observedLoans == {o.loanAmount : o \in data} \cup {userOffer.loanAmount}
observedRates == {o.interestRate : o \in data} \cup {userOffer.interestRate}

\* the bounds min and max padded by a tenth of range, the lower one not
\* floored
padded(min, max, range) ==
    <<RSub(min, RMul(range, <<1, 10>>)), RAdd(max, RMul(range, <<1, 10>>))>>

\* the same with the lower bound floored at zero
paddedFromZero(min, max, range) ==
    <<RMax(R(0), padded(min, max, range)[1]), padded(min, max, range)[2]>>

\* C27 as stated: the domain getInitialDomain returns for the offers and the
\* user offer of any state has max > min on both axes, and unless all values
\* of an axis are identical each side is padded by 10% of the observed
\* range.
InitialDomainPaddedTenth ==
    LET fresh == getInitialDomain(data, Some(userOffer))
        minLoan == RMinOf(observedLoans)
        maxLoan == RMaxOf(observedLoans)
        minRate == RMinOf(observedRates)
        maxRate == RMaxOf(observedRates)
    IN /\ RLt(fresh.x[1], fresh.x[2])
       /\ RLt(fresh.y[1], fresh.y[2])
       /\ minLoan # maxLoan =>
             fresh.x = padded(minLoan, maxLoan, RSub(maxLoan, minLoan))
       /\ minRate # maxRate =>
             fresh.y = padded(minRate, maxRate, RSub(maxRate, minRate))

\* C27 amended: the returned domain has max > min on both axes; each side is
\* padded by 10% of the observed range or of the minimum range (0.1 for the
\* principal, 2 for the rate) if that is larger, identical rates are first
\* spread by 1 to each side, and the lower bounds are floored at zero.
InitialDomainPaddedFloored ==
    LET fresh == getInitialDomain(data, Some(userOffer))
        minLoan == RMinOf(observedLoans)
        maxLoan == RMaxOf(observedLoans)
        minRate == RMinOf(observedRates)
        maxRate == RMaxOf(observedRates)
        yMin == IF minRate = maxRate THEN RSub(minRate, R(1)) ELSE minRate
        yMax == IF minRate = maxRate THEN RAdd(maxRate, R(1)) ELSE maxRate
    IN /\ RLt(fresh.x[1], fresh.x[2])
       /\ RLt(fresh.y[1], fresh.y[2])
       /\ fresh.x = paddedFromZero(minLoan, maxLoan,
                                   RMax(RSub(maxLoan, minLoan), <<1, 10>>))
       /\ fresh.y = paddedFromZero(yMin, yMax, RMax(RSub(yMax, yMin), R(2)))

\* C27 witness: the domain in use is the one getInitialDomain returns for a
\* user offer alone, all principals and all rates being identical, after
\* the owner has recomputed it
DomainOfLoneUserOffer ==
    /\ data = {}
    /\ dragActiveRef
    /\ domain = getInitialDomain(data, Some(userOffer))
    /\ RLt(domain.x[1], domain.x[2])
    /\ userOffer.loanAmount # R(0)

\* the bound new differs from the bound old by more than a tenth of upper
differsByTenth(new, old, upper) ==
    RLt(RMul(upper, <<1, 10>>), RAbs(RSub(new, old)))

\* some bound of the domain new differs from its bound of the domain old by
\* more than a tenth of the upper bound of its axis in old
someBoundFar(new, old) ==
    \/ differsByTenth(new.x[1], old.x[1], old.x[2])
    \/ differsByTenth(new.x[2], old.x[2], old.x[2])
    \/ differsByTenth(new.y[1], old.y[1], old.y[2])
    \/ differsByTenth(new.y[2], old.y[2], old.y[2])

MapperLinearInvertible ==
    mapperCall # Null =>
        LET m == Val(mapperCall)
        IN (RLt(m.domain.x[1], m.domain.x[2]) /\ RLt(m.domain.y[1], m.domain.y[2])
            /\ RLt(R(0), m.width) /\ RLt(R(0), m.height)) =>
              /\ m.backLoans = m.loans
              /\ m.backRates = m.rates
              /\ m.xEnds = <<R(0), m.width>>
              /\ m.yEnds = <<m.height, R(0)>>
              /\ m.xHalfway = RDiv(RAdd(m.xs[1], m.xs[2]), R(2))
              /\ m.yHalfway = RDiv(RAdd(m.ys[1], m.ys[2]), R(2))
              /\ RLt(m.rates[1], m.rates[2]) => RLt(m.ys[2], m.ys[1])
              /\ RLt(m.loans[1], m.loans[2]) => RLt(m.xs[1], m.xs[2])

\* two different rates, one of them outside the narrow domain, were mapped and mapped back
MappedOutsideDomain ==
    /\ mapperCall # Null
    /\ Val(mapperCall).domain.y = <<R(3), R(4)>>
    /\ Val(mapperCall).rates = <<R(4), R(50)>>
    /\ Val(mapperCall).loans = <<<<1, 5>>, R(4)>>
    /\ Val(mapperCall).backRates = Val(mapperCall).rates

\* C21: a render pass that runs while a drag session is active starts no
\* transition on the market marks, whether they enter, are updated or leave.
NoMarkTransitionInDrag ==
    isDraggingRef => markTransitions = {}

\* C30: crosshair lines and median-difference badges exist only while a drag
\* session is active (none is drawn in a pass outside a drag, none is left
\* after the pass that follows drag-end), and while they exist they pass
\* through the position of the user point.
CrosshairOnlyInDrag ==
    /\ ~isDraggingRef => svg = Null \/ svg.crosshair = Null
    /\ (svg # Null /\ svg.crosshair # Null) =>
          /\ userPoint # Null
          /\ Val(svg.crosshair).x = userPoint.cx
          /\ Val(svg.crosshair).y = userPoint.cy

isNumber(v) == v # Null /\ v # NaN

\* C29: in every reachable state the principal and the rate of the user
\* offer are defined, finite, non-negative numbers, and the user marker is
\* never drawn at a NaN coordinate.
UserOfferAlwaysNumbers ==
    /\ isNumber(userOffer.loanAmount)
    /\ isNumber(userOffer.interestRate)
    /\ RLe(R(0), userOffer.loanAmount)
    /\ RLe(R(0), userOffer.interestRate)
    /\ userPoint # Null => userPoint.cx # NaN /\ userPoint.cy # NaN

\* C31: the drag tooltip is visible exactly while a drag session is active:
\* shown at drag-start, hidden at drag-end and in every idle state.
DragTooltipIffDragging ==
    /\ dragTooltipRef # Null
    /\ Val(dragTooltipRef).visible = isDraggingRef

\* a drag that wrote into the tooltip has ended and the tooltip is hidden
TooltipHiddenAfterDrag ==
    /\ ~isDraggingRef
    /\ commits > 0
    /\ dragTooltipRef # Null
    /\ Val(dragTooltipRef).text # Null
    /\ ~Val(dragTooltipRef).visible

\* the number of offers of a list, and of nodes, with the key k
offersWith(list, k) == Cardinality({j \in 1..Len(list) : keyOf(list[j]) = k})
nodesWith(nodes, k) == Cardinality({i \in 1..Len(nodes) : keyOf(nodes[i].datum) = k})
nodesOf(joined) == {joined.nodes[j].node : j \in 1..Len(joined.nodes)}
allKeys == {keyOf(d) : d \in JoinPool}

\* C32: after a render pass the marks correspond one-to-one to the offers of
\* the list; of the offers with one identity (the id or, without an id, the
\* composite key) as many keep their mark as were there before and are
\* there again, the others get a new mark each, and a mark is kept only for
\* an offer of its identity.
MarksFollowOffers ==
    [][LET old == markNodes.nodes
           new == markNodes'.nodes
           list == markNodes'.data
           keptWith(k) == Cardinality({i \in 1..Len(old) :
                             /\ keyOf(old[i].datum) = k
                             /\ old[i].node \in nodesOf(markNodes')})
       IN /\ Len(new) = Len(list)
          /\ \A j \in 1..Len(list) : new[j].datum = list[j]
          /\ \A j, h \in 1..Len(new) : new[j].node = new[h].node => j = h
          /\ \A k \in allKeys :
                keptWith(k) = IF nodesWith(old, k) <= offersWith(list, k)
                              THEN nodesWith(old, k) ELSE offersWith(list, k)
          /\ \A j \in 1..Len(new) : \A i \in 1..Len(old) :
                new[j].node = old[i].node => keyOf(list[j]) = keyOf(old[i].datum)
      ]_vars

\* C33: a drag that ends without a pointer-move in between commits the
\* principal and the rate the user offer has, and leaves them unchanged.
DragWithoutMoveKeepsOffer ==
    [][(isDraggingRef /\ ~isDraggingRef' /\ moved = Null /\ appMounted) =>
          /\ isCommit(ownerLast')
          /\ Val(ownerLast').update.loanAmount = userOffer.loanAmount
          /\ Val(ownerLast').update.interestRate = userOffer.interestRate
          /\ userOffer'.loanAmount = userOffer.loanAmount
          /\ userOffer'.interestRate = userOffer.interestRate]_vars

\* v lies in the closed interval range
within(range, v) == RLe(range[1], v) /\ RLe(v, range[2])

\* C34: the domain getInitialDomain returns contains the principal and the
\* rate of every offer and of the user offer it was computed from.
InitialDomainContainsPoints ==
    LET fresh == getInitialDomain(data, Some(userOffer))
    IN /\ \A o \in data : within(fresh.x, o.loanAmount) /\ within(fresh.y, o.interestRate)
       /\ within(fresh.x, userOffer.loanAmount)
       /\ within(fresh.y, userOffer.interestRate)

\* the owner has recomputed the domain from offers and a user offer whose
\* principal is far above theirs
DomainOfFarUserOffer ==
    /\ data # {}
    /\ dragActiveRef
    /\ userOffer.loanAmount = R(100)
    /\ domain = getInitialDomain(data, Some(userOffer))
    /\ \A o \in data : RLt(o.loanAmount, userOffer.loanAmount)

\* C35: an expansion tick hands a new domain object to the state, and the
\* chart renders, only if the value of at least one bound changed: a tick that
\* leaves every bound at its value (the drag inactive, no edge near, or only
\* a lower bound already at 0 triggered) sets no state and renders nothing
TickPublishesOnlyChange ==
    [][(expandCount' # expandCount /\ domain' = domain)
         => (~expandPublishes /\ ~densityRan' /\ svg' = svg)]_vars

\* C36: the owner's initialisation effect reaches a fixed point: after the
\* offers arrive or the duration or the collection is selected, the renders
\* in which the effect sets the user offer and the filtered offers change
\* come to an end, and no render is pending
InitEffectSettles == ownerInit.pending ~> ~ownerInit.pending

InitEffectRanTwice ==
    /\ ~ownerInit.pending
    /\ ownerInit.runs = 2
    /\ Len(ownerInit.filteredOffers) < Len(ownerInit.currencyOffers)

\* C37: for a timestamp at or before now, formatAge gives the whole days
\* elapsed with "day(s) ago" when at least 24 hours have elapsed, else the
\* whole hours with "hour(s) ago" when at least 60 minutes have elapsed, else
\* the whole minutes with "minute(s) ago", rounded down; the unit is singular
\* exactly when the number is 1
AgeTextFloors ==
    (ageCall # Null /\ Val(ageCall).timestamp # Null
     /\ Val(Val(ageCall).timestamp) > 0
     /\ Val(Val(ageCall).timestamp) <= Val(ageCall).now) =>
        LET elapsed == Val(ageCall).now - Val(Val(ageCall).timestamp)
            text == Val(ageCall).text
            unitMs == IF elapsed >= DayMs THEN DayMs
                      ELSE IF elapsed >= HourMs THEN HourMs ELSE MinuteMs
            unit == IF elapsed >= DayMs THEN " day"
                    ELSE IF elapsed >= HourMs THEN " hour" ELSE " minute"
        IN /\ Len(text) = 4
           /\ text[1] * unitMs <= elapsed
           /\ elapsed < (text[1] + 1) * unitMs
           /\ text[2] = unit
           /\ text[3] = IF text[1] = 1 THEN "" ELSE "s"
           /\ text[4] = " ago"

AgeOfAlmostTwoHours ==
    /\ ageCall # Null
    /\ Val(ageCall).timestamp = Some(Now - (2 * HourMs - 1))
    /\ Val(ageCall).text = <<1, " hour", "", " ago">>

\* C38: the colour parameter of a mark is (timestamp - min) / (max - min)
\* over the timestamps of the current offers, 0 for the oldest and 1 for the
\* newest; when all timestamps are equal every mark has the parameter 1, the
\* colour of the newest
ColourParameterByAge ==
    colourCall # Null =>
        LET call == Val(colourCall)
            time(i) == timestampOrZero(call.timestamps[i])
            coloured == DOMAIN call.timestamps
            oldest == CHOOSE i \in coloured : \A j \in coloured : time(i) <= time(j)
            newest == CHOOSE i \in coloured : \A j \in coloured : time(j) <= time(i)
        IN IF time(oldest) = time(newest)
           THEN \A i \in coloured : call.parameters[i] = R(1)
           ELSE \A i \in coloured :
                   call.parameters[i] = RDiv(R(time(i) - time(oldest)),
                                             R(time(newest) - time(oldest)))

\* C39: at most one throttle timeout and at most one expansion interval are
\* armed at any time: each handle names the one timer of its kind that is
\* armed, and no timer is armed while its handle is clear
AtMostOneTimerArmed ==
    /\ timers.timeouts = IF timers.throttleTimeoutRef = Null THEN {}
                          ELSE {Val(timers.throttleTimeoutRef)}
    /\ timers.intervals = IF timers.expandIntervalRef = Null THEN {}
                           ELSE {Val(timers.expandIntervalRef)}

TimersArmedAgain ==
    /\ timers.made >= 4
    /\ timers.throttleTimeoutRef # Null
    /\ timers.expandIntervalRef # Null

====
